---- MODULE Spec2Model ----
(***************************************************************************)
(* Model of gmclove/DWG-PDF-exp: the COM retry layer (com_retry_call),     *)
(* the title-block scan (read_titleblock_from_active_layout_robust) and    *)
(* the batch conversion loop (main / convert_individual_and_collect_rows). *)
(*                                                                         *)
(* Strings of the program are modelled as sequences of one-character       *)
(* strings, so that upper(), strip(), re.sub and re.match are computed.    *)
(***************************************************************************)
EXTENDS Integers, Sequences, FiniteSets, TLC

VARIABLES
    \* ---- com_retry_call (src/dwgtool/cad/plotter.py:15-31) ----
    rc_pc,        \* position inside com_retry_call
    retries,      \* the retries keyword argument
    func,         \* behaviour of the wrapped operation for this call
    attempt,      \* number of loop iterations of `for _ in range(retries)` begun
    last_exc,     \* the local last_exc
    rc_result,    \* how the call ended: value returned or exception raised
    rc_log        \* what the call did, in order: "exec", "pump", "sleep"

rcVars == <<rc_pc, retries, func, attempt, last_exc, rc_result, rc_log>>

VARIABLES
    \* ---- main (src/app.py:10-85) ----
    m_pc,         \* position inside main
    copied,       \* len(copied): number of drawings of the batch
    dwg,          \* 1-based index of the drawing whose conversion was last begun
    m_exc,        \* the exception main's `except Exception` caught, or None
    all_pdfs,     \* len(all_pdfs)
    \* ---- convert_individual_and_collect_rows (plotter.py:100-259) ----
    c_pc,         \* position inside the method
    doc,          \* TRUE when the local doc holds an open document
    layouts,      \* the names of the layouts of the document, in Item order
    count,        \* layouts.Count
    i,            \* index of the layout being processed
    found_paper,  \* the local found_paper
    layout_name,  \* the local layout_name
    rows,         \* rows this call appended to the rows list, in order
    generated,    \* the local list generated (layout names whose PDF exists)
    c_exc,        \* the exception propagating out of the try block, or None
    closes,       \* the Close calls issued on the current document: whether each succeeded
    calls         \* the host operations the current loop iteration issued, with their outcome

mainVars == <<m_pc, copied, dwg, m_exc, all_pdfs>>
convVars == <<c_pc, doc, layouts, count, i, found_paper, layout_name, rows,
              generated, c_exc, closes, calls>>

VARIABLES
    \* ---- read_titleblock_from_active_layout_robust (scanner.py:14-232) ----
    s_pc,         \* position inside the function
    tb_config,    \* the cfg argument (the converter's tb_config)
    norm,         \* the locals computed from cfg (tb_names, sheet_top_tag_norm, ...)
    ps_count,     \* the local ps_count
    ps_i,         \* number of iterations of `for i in range(ps_count)` begun
    entity,       \* the local ent: the entity Item(i) returned
    best,         \* the local best
    result,       \* the 7 values returned
    s_exc,        \* the exception the call raised, or "none"
    cands,        \* the entities PaperSpace has handed out so far, in order
    best_idx,     \* position in cands of the entity best was taken from (0: none)
    absorbed,     \* failures of reads issued so far that an except clause caught
    reads,        \* the reads consider_entity issued on the entity, in order
    scored        \* positions in cands of the entities analyze_block was called on

scanVars == <<s_pc, tb_config, norm, ps_count, ps_i, entity, best, result, s_exc,
              cands, best_idx, absorbed, reads, scored>>

VARIABLES
    \* ---- analyze_block followed step by step (scanner.py:94-145, 190-232) ----
    ab_pc,        \* position inside analyze_block, then inside the composition
    ab_loc,       \* the locals computed from cfg
    ab_attrs,     \* the argument attrs: what collect_attrs returned for the block
    ab_k,         \* 1-based index of the attribute the current loop is at
    ab_st,        \* the locals score, top, bot, titles, revs
    ab_fired,     \* which attribute made which rule act, and the points it added
    ab_out        \* the 7 values returned when this block is the one retained

abVars == <<ab_pc, ab_loc, ab_attrs, ab_k, ab_st, ab_fired, ab_out>>

VARIABLES
    \* ---- _norm_tag / _norm_prompt applied to a string (scanner.py:5-9) ----
    n_pc,         \* "idle", "once" (applied to n_in), "twice" (applied to n_out)
    n_fn,         \* which of the two functions is applied
    n_in,         \* the argument s
    n_out,        \* the value returned for n_in
    n_out2        \* the value returned for n_out

normVars == <<n_pc, n_fn, n_in, n_out, n_out2>>

VARIABLES
    \* ---- the loop that fills other_attrs (scanner.py:223-230) ----
    oa_pc,        \* "idle", "loop", "done"
    oa_attrs,     \* best['attrs']
    oa_k,         \* 1-based index of the attribute the loop is at
    other_attrs   \* the dictionary, as its (key, value) pairs in insertion order

otherVars == <<oa_pc, oa_attrs, oa_k, other_attrs>>

VARIABLES
    \* ---- the scan of scanner.py and the scan of main.py on the same data ----
    ms_pc,        \* "idle", "called", "scanned" (scanner.py returned), "both"
    ms_cfg,       \* the configuration values both are called with
    ms_cands,     \* the entities of PaperSpace
    ms_scanner,   \* what the function of scanner.py did
    ms_main       \* what the function of main.py did

mainScanVars == <<ms_pc, ms_cfg, ms_cands, ms_scanner, ms_main>>

vars == <<rcVars, mainVars, convVars, scanVars, abVars, normVars, otherVars, mainScanVars>>

\* What the actions of one part leave alone.
notRetryVars == <<mainVars, convVars, scanVars, abVars, normVars, otherVars, mainScanVars>>
notBatchVars == <<rcVars, scanVars, abVars, normVars, otherVars, mainScanVars>>
notScanVars == <<rcVars, mainVars, convVars, abVars, normVars, otherVars, mainScanVars>>
notAnalyzeVars == <<rcVars, mainVars, convVars, scanVars, normVars, otherVars, mainScanVars>>
notNormVars == <<rcVars, mainVars, convVars, scanVars, abVars, otherVars, mainScanVars>>
notOtherVars == <<rcVars, mainVars, convVars, scanVars, abVars, normVars, mainScanVars>>
notMainScanVars == <<rcVars, mainVars, convVars, scanVars, abVars, normVars, otherVars>>

(***************************************************************************)
(*                         COM retry layer                                 *)
(***************************************************************************)

\* Largest value of the retries argument that is explored (the default is 50).
MaxRetries == 3

RPC_E_CALL_REJECTED == -2147418111

\* Python's None for an object-valued local.
None == [kind |-> "None"]

\* A pythoncom.com_error: its hresult attribute (0 stands for a falsy or
\* missing attribute) and its args tuple.
ComError(h, a) == [kind |-> "com_error", hresult |-> h, args |-> a]

\* com_errors that signal "call was rejected by callee".
BusyErrors ==
    { ComError(RPC_E_CALL_REJECTED, <<RPC_E_CALL_REJECTED>>),
      ComError(0, <<RPC_E_CALL_REJECTED>>) }

\* com_errors with another hresult (E_FAIL, DISP_E_MEMBERNOTFOUND, none at all).
OtherComErrors ==
    { ComError(-2147467259, <<-2147467259>>),
      ComError(0, <<-2147352573>>),
      ComError(0, <<>>) }

\* An exception that is not a com_error (AttributeError, TypeError, ...).
OtherException == [kind |-> "exception"]

\* A successful execution of func returns this.
Value == [kind |-> "value"]

\* What one execution of func can do.
Outcomes == {Value} \cup BusyErrors \cup OtherComErrors \cup {OtherException}

\* Behaviour of an operation: it is busy (raising busyExc) on its first
\* `busy` executions and does `then` on every later one.
Funcs == [busy : 0..MaxRetries, busyExc : BusyErrors, then : Outcomes]

\* Outcome of execution number n (1-based) of operation f.
Execute(f, n) == IF n <= f.busy THEN f.busyExc ELSE f.then

\* plotter.py:21  hresult = getattr(e,'hresult',None) or (e.args[0] if e.args else None)
\* (0 stands for None: both are falsy and neither equals RPC_E_CALL_REJECTED)
HResultOf(e) ==
    IF e.hresult # 0 THEN e.hresult
    ELSE IF Len(e.args) > 0 THEN e.args[1] ELSE 0

\* Variant: the classification reads only the hresult attribute.
IsBusy_AttrOnly(e) == e.kind = "com_error" /\ e.hresult = RPC_E_CALL_REJECTED

\* Variant: every com_error is taken for the busy condition.
IsBusy_AnyComError(e) == e.kind = "com_error"

\* plotter.py:22  the busy classification
IsBusy(e) == e.kind = "com_error" /\ HResultOf(e) = RPC_E_CALL_REJECTED

RetryInit ==
    /\ rc_pc = "idle"
    /\ retries = 0
    /\ func = [busy |-> 0, busyExc |-> ComError(0, <<>>), then |-> Value]
    /\ attempt = 0
    /\ last_exc = None
    /\ rc_result = None
    /\ rc_log = <<>>

\* The call com_retry_call(func, retries=n): plotter.py:15-16
RetryCall ==
    /\ rc_pc = "idle"
    /\ \E n \in 0..MaxRetries, f \in Funcs :
          /\ retries' = n
          /\ func' = f
    /\ attempt' = 0
    /\ last_exc' = None
    /\ rc_pc' = "loop"
    /\ UNCHANGED <<rc_result, rc_log, notRetryVars>>

\* One iteration of the for loop up to the classification of the outcome:
\* plotter.py:17-22 and 27; a loop that has run `retries` times falls to the tail.
RetryAttempt ==
    /\ rc_pc = "loop"
    /\ IF attempt < retries
       THEN LET e == Execute(func, attempt + 1) IN
            /\ attempt' = attempt + 1
            /\ rc_log' = Append(rc_log, "exec")
            /\ IF e.kind = "value"
               THEN rc_pc' = "returned" /\ rc_result' = e
               ELSE IF e.kind = "com_error" /\ IsBusy(e)
               THEN rc_pc' = "pump" /\ UNCHANGED rc_result
               ELSE rc_pc' = "raised" /\ rc_result' = e
       ELSE /\ rc_pc' = "tail"
            /\ UNCHANGED <<attempt, rc_result, rc_log>>
    /\ UNCHANGED <<retries, func, last_exc, notRetryVars>>

\* plotter.py:23  pythoncom.PumpWaitingMessages()
RetryPump ==
    /\ rc_pc = "pump"
    /\ rc_log' = Append(rc_log, "pump")
    /\ rc_pc' = "sleep"
    /\ UNCHANGED <<retries, func, attempt, last_exc, rc_result, notRetryVars>>

\* plotter.py:24-26  time.sleep(delay); last_exc = e; continue
RetrySleep ==
    /\ rc_pc = "sleep"
    /\ rc_log' = Append(rc_log, "sleep")
    /\ last_exc' = Execute(func, attempt)
    /\ rc_pc' = "loop"
    /\ UNCHANGED <<retries, func, attempt, rc_result, notRetryVars>>

\* plotter.py:28-31  after the loop: raise last_exc if there is one, else
\* fall off the end of the function, which returns None.
RetryTail ==
    /\ rc_pc = "tail"
    /\ IF last_exc # None
       THEN rc_pc' = "raised" /\ rc_result' = last_exc
       ELSE rc_pc' = "returned" /\ rc_result' = None
    /\ UNCHANGED <<retries, func, attempt, last_exc, rc_log, notRetryVars>>

NextRetry == RetryCall \/ RetryAttempt \/ RetryPump \/ RetrySleep \/ RetryTail

(***************************************************************************)
(*                  Properties of the COM retry layer                      *)
(***************************************************************************)

RECURSIVE BackoffLog(_)
\* The log of k busy executions, each followed by one pump and one sleep.
BackoffLog(k) ==
    IF k = 0 THEN <<>> ELSE <<"exec", "pump", "sleep">> \o BackoffLog(k - 1)

CountOf(log, x) == Cardinality({j \in 1..Len(log) : log[j] = x})

RetryEnded == rc_pc \in {"returned", "raised"}

\* C1: an operation that is busy exactly k < retries times and then succeeds:
\* the call never raises and, once ended, has returned the success value after
\* exactly k+1 executions, each busy failure followed by one pump and then one
\* sleep before the next execution.
C1_BusyThenSuccess ==
    (func.then = Value /\ func.busy < retries) =>
        /\ rc_pc # "raised"
        /\ rc_pc # "tail"
        /\ RetryEnded =>
              /\ rc_pc = "returned"
              /\ rc_result = Value
              /\ CountOf(rc_log, "exec") = func.busy + 1
              /\ rc_log = BackoffLog(func.busy) \o <<"exec">>

C1_Witness ==
    /\ rc_pc = "returned"
    /\ func.then = Value
    /\ func.busy = 2
    /\ retries = 3
    /\ func.busyExc.hresult = 0

\* C2: an operation that is busy on every execution: once the call has ended it
\* has executed the operation exactly `retries` times and has raised the last
\* busy failure; it has not returned.
C2_AlwaysBusyRaises ==
    (RetryEnded /\ func.then \in BusyErrors) =>
        /\ rc_pc = "raised"
        /\ rc_result \in BusyErrors
        /\ CountOf(rc_log, "exec") = retries

\* C3: when an execution fails with anything but the busy condition, the call
\* is at once ended by raising that very failure: nothing is executed after it,
\* no pump or sleep follows it, and if it was the first execution the call took
\* no backoff step at all.
C3_OtherFailurePropagates ==
    LET e == Execute(func, attempt) IN
    (attempt >= 1 /\ rc_log # <<>> /\ e \in OtherComErrors \cup {OtherException}) =>
        /\ rc_pc = "raised"
        /\ rc_result = e
        /\ rc_log = BackoffLog(attempt - 1) \o <<"exec">>
        /\ (attempt = 1 => rc_log = <<"exec">>)
        /\ ~ENABLED NextRetry

C3_Witness ==
    /\ rc_pc = "raised"
    /\ rc_result \in OtherComErrors \cup {OtherException}
    /\ attempt = 1
    /\ retries = 3

\* C27: the call never returns without a value obtained from the operation:
\* once it has returned, whatever `retries` was, the operation has been
\* executed, its last execution succeeded and the value returned is the value
\* of that execution; it has not returned None.
C27_ValueOrRaise ==
    rc_pc = "returned" =>
        /\ attempt >= 1
        /\ Execute(func, attempt).kind = "value"
        /\ rc_result = Execute(func, attempt)
        /\ rc_result # None

(***************************************************************************)
(*                              Strings                                    *)
(***************************************************************************)

LowerChars == <<"a","b","c","d","e","f","g","h","i","j","k","l","m",
                "n","o","p","q","r","s","t","u","v","w","x","y","z">>
UpperChars == <<"A","B","C","D","E","F","G","H","I","J","K","L","M",
                "N","O","P","Q","R","S","T","U","V","W","X","Y","Z">>
Digits == <<"0","1","2","3","4","5","6","7","8","9">>

IndexIn(seq, c) == CHOOSE j \in 1..Len(seq) : seq[j] = c
Occurs(seq, c) == \E j \in 1..Len(seq) : seq[j] = c

\* str.upper() and str.lower(), character by character
UpperChar(c) == IF Occurs(LowerChars, c) THEN UpperChars[IndexIn(LowerChars, c)] ELSE c
LowerChar(c) == IF Occurs(UpperChars, c) THEN LowerChars[IndexIn(UpperChars, c)] ELSE c
Upper(str) == [j \in 1..Len(str) |-> UpperChar(str[j])]
Lower(str) == [j \in 1..Len(str) |-> LowerChar(str[j])]

Range(seq) == {seq[j] : j \in 1..Len(seq)}

IsSpace(c) == c \in {" ", "\t", "\n", "\r"}

RECURSIVE LStrip(_)
LStrip(str) ==
    IF str # <<>> /\ IsSpace(Head(str)) THEN LStrip(Tail(str)) ELSE str

RECURSIVE RStrip(_)
RStrip(str) ==
    IF str # <<>> /\ IsSpace(str[Len(str)])
    THEN RStrip(SubSeq(str, 1, Len(str) - 1)) ELSE str

\* str.strip()
Strip(str) == RStrip(LStrip(str))

RECURSIVE Split(_, _)
\* str.split(sep) for a one-character separator
Split(str, sep) ==
    IF ~Occurs(str, sep) THEN <<str>>
    ELSE LET k == CHOOSE j \in 1..Len(str) :
                     str[j] = sep /\ \A m \in 1..(j - 1) : str[m] # sep
         IN  <<SubSeq(str, 1, k - 1)>> \o Split(SubSeq(str, k + 1, Len(str)), sep)

RECURSIVE Join(_, _)
\* sep.join(parts)
Join(parts, sep) ==
    IF parts = <<>> THEN <<>>
    ELSE IF Len(parts) = 1 THEN parts[1]
    ELSE parts[1] \o sep \o Join(Tail(parts), sep)

RECURSIVE ParseInt(_)
\* int(digits) for a run of decimal digits
ParseInt(digits) ==
    IF digits = <<>> THEN 0
    ELSE 10 * ParseInt(SubSeq(digits, 1, Len(digits) - 1))
         + (IndexIn(Digits, digits[Len(digits)]) - 1)

RECURSIVE DigitsOf(_)
\* str(n) for n >= 0
DigitsOf(n) ==
    IF n < 10 THEN <<Digits[n + 1]>> ELSE DigitsOf(n \div 10) \o <<Digits[(n % 10) + 1]>>

\* A Python None where a string is expected.
NoneStr == <<"None">>

\* (s or '')
OrEmpty(str) == IF str = NoneStr THEN <<>> ELSE str

(***************************************************************************)
(*        main and AutoCADPdfConverter.convert_individual_and_collect_rows *)
(***************************************************************************)

\* Number of drawings of a batch and of layouts of a drawing that are explored.
MaxDwgs == 2
MaxLayouts == 2

\* Names a layout can have.
LayoutNames == { <<"M","o","d","e","l">>, <<"A","1">>, <<"B">> }

\* How a call through com_get / com_set / com_call can fail: with the busy
\* failure that com_retry_call raises once its retries are used up, or with a
\* failure it raises at once.
Exhausted(op) == [kind |-> "exhausted", op |-> op]
Permanent(op) == [kind |-> "permanent", op |-> op]
Failures(op) == {Exhausted(op), Permanent(op)}

\* rows.append({...}) for a drawing that could not be opened: plotter.py:106-119
OpenFailedRow ==
    [layout |-> <<>>, plot |-> "No", status |-> "Open Failed",
     error |-> <<"open">>, pdf |-> FALSE, titleblock |-> "default"]

\* rows.append({...}) for a drawing without paper layouts: plotter.py:240-253
NoPaperRow ==
    [layout |-> <<>>, plot |-> "No", status |-> "No Paper Layouts",
     error |-> <<>>, pdf |-> FALSE, titleblock |-> "default"]

MainInit ==
    /\ m_pc = "start"
    /\ copied = 0
    /\ dwg = 0
    /\ m_exc = None
    /\ all_pdfs = 0

ConvInit ==
    /\ c_pc = "idle"
    /\ doc = FALSE
    /\ layouts = <<>>
    /\ count = 0
    /\ i = 0
    /\ found_paper = FALSE
    /\ layout_name = <<>>
    /\ rows = <<>>
    /\ generated = <<>>
    /\ c_exc = None
    /\ closes = <<>>
    /\ calls = <<>>

\* app.py:37-56  the drawings are listed and copied (an empty list exits before
\* AutoCAD is started) and the converter is entered; a failure of __enter__
\* (plotter.py:58-74) is caught by main's except clause.
MainStart ==
    /\ m_pc = "start"
    /\ \E n \in 1..MaxDwgs, entered \in BOOLEAN :
          /\ copied' = n
          /\ IF entered
             THEN m_pc' = "loop" /\ UNCHANGED m_exc
             ELSE m_pc' = "exit2" /\ m_exc' = Permanent("__enter__")
    /\ UNCHANGED <<dwg, all_pdfs, convVars, notBatchVars>>

\* app.py:60-62  the next iteration of `for idx, dwg in enumerate(copied, 1)`
\* calls convert_individual_and_collect_rows (plotter.py:100-102).
MainLoop ==
    /\ m_pc = "loop"
    /\ c_pc = "idle"
    /\ dwg < copied
    /\ dwg' = dwg + 1
    /\ c_pc' = "open"
    /\ doc' = FALSE
    /\ layouts' = <<>>
    /\ rows' = <<>>
    /\ generated' = <<>>
    /\ c_exc' = None
    /\ closes' = <<>>
    /\ calls' = <<>>
    /\ count' = 0
    /\ i' = 0
    /\ found_paper' = FALSE
    /\ layout_name' = <<>>
    /\ UNCHANGED <<m_pc, copied, m_exc, all_pdfs, notBatchVars>>

\* app.py:71-85  the loop is over: the PDFs are merged and the CSV is written.
MainFinish ==
    /\ m_pc = "loop"
    /\ c_pc = "idle"
    /\ dwg = copied
    /\ m_pc' = "done"
    /\ UNCHANGED <<copied, dwg, m_exc, all_pdfs, convVars, notBatchVars>>

\* The layouts a document can hold: up to MaxLayouts names, in any order.
LayoutSeqs == UNION {[1..n -> LayoutNames] : n \in 0..MaxLayouts}

\* plotter.py:103-121  open_document succeeds (doc is a document with its
\* layouts), or its failure is recorded as an "Open Failed" row and the method
\* returns.
ConvertOpen ==
    /\ c_pc = "open"
    /\ \/ \E ls \in LayoutSeqs :
             /\ doc' = TRUE
             /\ layouts' = ls
             /\ c_pc' = "layouts"
             /\ UNCHANGED rows
       \/ /\ rows' = Append(rows, OpenFailedRow)
          /\ c_pc' = "return"
          /\ UNCHANGED <<doc, layouts>>
    /\ UNCHANGED <<count, i, found_paper, layout_name, generated, c_exc, closes, calls,
                   mainVars, notBatchVars>>

\* plotter.py:123-126  layouts = com_get(doc, "Layouts"); count = com_get(layouts,
\* "Count"): a failure of either leaves the try block for the finally clause.
ConvertLayouts ==
    /\ c_pc = "layouts"
    /\ \/ /\ count' = Len(layouts)
          /\ c_pc' = "item"
          /\ UNCHANGED c_exc
       \/ \E e \in Failures("Layouts") \cup Failures("Count") :
             /\ c_exc' = e
             /\ c_pc' = "finally"
             /\ UNCHANGED count
    /\ i' = 0
    /\ found_paper' = FALSE
    /\ UNCHANGED <<doc, layouts, layout_name, rows, generated, closes, calls, mainVars,
                   notBatchVars>>

\* plotter.py:128-134  the head of one loop iteration: Item(i) and Name are read
\* (a failure of either propagates), and the model layout is skipped.
\* plotter.py:239-253  after the last layout, a drawing without paper layout
\* gets its row.
ConvertItem ==
    /\ c_pc = "item"
    /\ IF i < count
       THEN \/ LET name == layouts[i + 1] IN
                 /\ layout_name' = name
                 /\ IF Lower(name) = <<"m","o","d","e","l">>
                    THEN /\ i' = i + 1
                         /\ c_pc' = "item"
                         /\ UNCHANGED found_paper
                    ELSE /\ found_paper' = TRUE
                         /\ c_pc' = "body"
                         /\ UNCHANGED i
                 /\ UNCHANGED <<c_exc, rows>>
            \/ \E e \in Failures("Item") \cup Failures("Name") :
                 /\ c_exc' = e
                 /\ c_pc' = "finally"
                 /\ UNCHANGED <<i, found_paper, layout_name, rows>>
       ELSE /\ rows' = IF found_paper THEN rows ELSE Append(rows, NoPaperRow)
            /\ c_pc' = "finally"
            /\ UNCHANGED <<i, found_paper, layout_name, c_exc>>
    /\ calls' = <<>>
    /\ UNCHANGED <<doc, layouts, count, generated, closes, mainVars, notBatchVars>>

\* Variant of the row in which Status says "Plotted" as soon as PlotToFile
\* returned, whether or not the file exists.
LayoutRow_StatusBeforeFile(name, config_ok, act1, act2, tb_ok, plot_ok, file_ok) ==
    LET activated == config_ok /\ (act1 \/ act2)
        plotted == activated /\ plot_ok /\ file_ok
    IN  [layout |-> name,
         plot |-> IF plotted THEN "Yes" ELSE "No",
         status |-> IF ~config_ok THEN "Plotter Unavailable"
                    ELSE IF ~activated THEN "Activate Failed"
                    ELSE IF plot_ok THEN "Plotted" ELSE "Plot Failed",
         error |-> <<>>,
         pdf |-> plotted,
         titleblock |-> IF activated /\ tb_ok THEN "read" ELSE "default"]

\* plotter.py:136-233  the row of one paper layout, from what the host did:
\* config_ok: com_set(layout, "ConfigName") succeeded (a failure of
\* RefreshPlotDeviceInfo before it is swallowed); act1, act2: the first and the
\* second com_set(doc, "ActiveLayout") succeeded; tb_ok: the title-block read
\* returned; plot_ok: com_get(doc, "Plot") and PlotToFile succeeded; file_ok: the
\* PDF exists with a size above 0 when the wait ends.
LayoutRow(name, config_ok, act1, act2, tb_ok, plot_ok, file_ok) ==
    LET plotter_ok == config_ok
        status0 == IF config_ok THEN "" ELSE "Plotter Unavailable"
        error0 == IF config_ok THEN <<>> ELSE <<"ConfigName">>
        activated == plotter_ok /\ (act1 \/ act2)
        status1 == IF plotter_ok /\ ~activated THEN "Activate Failed" ELSE status0
        error1 == IF plotter_ok /\ ~activated THEN <<"ActiveLayout">> ELSE error0
        tb_read == activated /\ tb_ok
        error2 == IF activated /\ ~tb_ok
                  THEN error1 \o <<"Title block read">> ELSE error1
        plotted == plotter_ok /\ activated /\ plot_ok /\ file_ok
        status3 == IF plotter_ok /\ activated
                   THEN (IF plotted THEN "Plotted" ELSE "Plot Failed")
                   ELSE (IF status1 = "" THEN "Skipped" ELSE status1)
        error3 == IF plotter_ok /\ activated /\ ~plotted
                  THEN (IF plot_ok
                        THEN (IF error2 = <<>> THEN <<"no file">> ELSE error2)
                        ELSE error2 \o <<"plot">>)
                  ELSE error2
    IN  [layout |-> name,
         plot |-> IF plotted THEN "Yes" ELSE "No",
         status |-> status3,
         error |-> error3,
         pdf |-> plotted,
         titleblock |-> IF tb_read THEN "read" ELSE "default"]

\* plotter.py:140-194  the operations the body issues on the host, in order,
\* each with its outcome: the second ActiveLayout only after the first failed,
\* the title-block read only `if activated`, the plot only `if plotter_ok and
\* activated`.
BodyCalls(config_ok, act1, act2, tb_ok, plot_ok) ==
    LET Call(op, ok) == [op |-> op, ok |-> ok]
        activated == config_ok /\ (act1 \/ act2)
    IN  <<Call("ConfigName", config_ok)>>
        \o (IF config_ok
            THEN <<Call("ActiveLayout", act1)>>
                 \o (IF act1 THEN <<>> ELSE <<Call("ActiveLayout", act2)>>)
            ELSE <<>>)
        \o (IF activated THEN <<Call("read_titleblock", tb_ok)>> ELSE <<>>)
        \o (IF config_ok /\ activated THEN <<Call("Plot", plot_ok)>> ELSE <<>>)

\* plotter.py:136-237  the body of one loop iteration for a paper layout: every
\* failure inside it is caught, the row is appended, the PDF that exists is
\* added to generated.
ConvertLayoutBody ==
    /\ c_pc = "body"
    /\ \E config_ok, act1, act2, tb_ok, plot_ok, file_ok \in BOOLEAN :
          LET row == LayoutRow(layout_name, config_ok, act1, act2, tb_ok,
                               plot_ok, file_ok)
          IN  /\ rows' = Append(rows, row)
              /\ generated' = IF row.plot = "Yes"
                              THEN Append(generated, layout_name) ELSE generated
              /\ calls' = BodyCalls(config_ok, act1, act2, tb_ok, plot_ok)
    /\ i' = i + 1
    /\ c_pc' = "item"
    /\ UNCHANGED <<doc, layouts, count, found_paper, layout_name, c_exc, closes,
                   mainVars, notBatchVars>>

\* Variant of close_document that lets a failure of Close out.
close_document_Propagates(close_ok) == IF close_ok THEN None ELSE Permanent("Close")

\* plotter.py:94-98  close_document(doc): the exception that leaves it: none,
\* a failure of Close is caught and dropped.
close_document(close_ok) == None

\* plotter.py:255-259 and 94-98  the finally clause closes the document
\* (close_document swallows a failure of Close); then the method returns, or
\* the exception that left the try block goes on to the caller.
ConvertFinally ==
    /\ c_pc = "finally"
    /\ IF doc
       THEN \E close_ok \in BOOLEAN :
               /\ closes' = Append(closes, close_ok)
               /\ c_exc' = IF close_document(close_ok) # None
                           THEN close_document(close_ok) ELSE c_exc
       ELSE UNCHANGED <<closes, c_exc>>
    /\ c_pc' = IF c_exc' = None THEN "return" ELSE "raise"
    /\ UNCHANGED <<doc, layouts, count, i, found_paper, layout_name, rows,
                   generated, calls, mainVars, notBatchVars>>

\* app.py:62-63  the method returned: all_pdfs.extend(generated)
ConvertReturn ==
    /\ c_pc = "return"
    /\ all_pdfs' = all_pdfs + Len(generated)
    /\ c_pc' = "idle"
    /\ UNCHANGED <<m_pc, copied, dwg, m_exc, doc, layouts, count, i,
                   found_paper, layout_name, rows, generated, c_exc, closes, calls,
                   notBatchVars>>

\* app.py:64-69  an exception out of the method (or out of the converter) ends
\* the with block and the loop: main writes the rows it has and exits with 2.
MainExcept ==
    /\ m_pc = "loop"
    /\ c_pc = "raise"
    /\ m_exc' = c_exc
    /\ m_pc' = "exit2"
    /\ c_pc' = "idle"
    /\ UNCHANGED <<copied, dwg, all_pdfs, doc, layouts, count, i,
                   found_paper, layout_name, rows, generated, c_exc, closes, calls,
                   notBatchVars>>

NextBatch ==
    \/ MainStart \/ MainLoop \/ MainFinish \/ MainExcept
    \/ ConvertOpen \/ ConvertLayouts \/ ConvertItem \/ ConvertLayoutBody
    \/ ConvertFinally \/ ConvertReturn

(***************************************************************************)
(*                 Title-block configuration (config.py)                   *)
(***************************************************************************)

DEFAULT_TARGET_BLOCK_NAMES == { <<"G","F"," ","M","A","L","T","A"," ","T","I","T","L","E"," ","B","L","O","C","K"," ","3","0","X","4","2","-","T","B","-","A","T","T">> }
DEFAULT_SHEET_TOP_TAGS == <<<<"F","C","-","E">>, <<"T","O","P","N","U","M","B","E","R">>, <<"T","O","P","_","N","U","M">>, <<"T","O","P">>>>
DEFAULT_SHEET_TOP_PROMPTS == <<<<"T","o","p"," ","N","u","m","b","e","r">>>>
DEFAULT_SHEET_BOTTOM_TAGS == <<<<"4","4","2","C">>, <<"B","O","T","T","O","M","N","U","M","B","E","R">>, <<"B","O","T","T","O","M","_","N","U","M">>, <<"B","O","T","T","O","M">>>>
DEFAULT_SHEET_BOTTOM_PROMPTS == <<<<"B","o","t","t","o","m"," ","N","u","m","b","e","r">>>>
DEFAULT_TITLE_TAG_PRIMARY == 
    <<<<"T","I","T","L","E","_","1">>,
      <<"T","I","T","L","E","_","2">>,
      <<"T","I","T","L","E","_","3">>,
      <<"T","I","T","L","E","_","4">>,
      <<"T","I","T","L","E","_","5">>>>
DEFAULT_TITLE_PROMPT_PRIMARY == 
    <<<<"T","I","T","L","E","_","1">>,
      <<"T","I","T","L","E","_","2">>,
      <<"T","I","T","L","E","_","3">>,
      <<"T","I","T","L","E","_","4">>,
      <<"T","I","T","L","E","_","5">>>>
DEFAULT_TITLE_PROMPT_ALIAS == <<<<"E","L","E","C","T","R","I","C","A","L">>>>
\* range(0, 10)
DEFAULT_REVISION_INDEX_RANGE == [start |-> 0, stop |-> 10]
DEFAULT_SHEETNO_SEPARATOR == <<"-">>
DEFAULT_TITLE_JOINER == <<" ">>

\* config.py:35-47  the dictionary of defaults
DefaultConfig ==
    [target_block_names |-> DEFAULT_TARGET_BLOCK_NAMES,
     sheet_top_tags |-> DEFAULT_SHEET_TOP_TAGS,
     sheet_top_prompts |-> DEFAULT_SHEET_TOP_PROMPTS,
     sheet_bottom_tags |-> DEFAULT_SHEET_BOTTOM_TAGS,
     sheet_bottom_prompts |-> DEFAULT_SHEET_BOTTOM_PROMPTS,
     title_tag_primary |-> DEFAULT_TITLE_TAG_PRIMARY,
     title_prompt_primary |-> DEFAULT_TITLE_PROMPT_PRIMARY,
     title_prompt_alias |-> DEFAULT_TITLE_PROMPT_ALIAS,
     revision_index_range |-> DEFAULT_REVISION_INDEX_RANGE,
     sheetno_separator |-> DEFAULT_SHEETNO_SEPARATOR,
     title_joiner |-> DEFAULT_TITLE_JOINER]

\* config.py:51-55  ask_list: the line typed at the console, or the default
ask_list(line, default_tuple) ==
    LET raw == Strip(line)
        parts == Split(raw, ",")
    IN  IF raw = <<>> THEN default_tuple
        ELSE [j \in 1..Len(parts) |-> Strip(parts[j])]

\* config.py:30-81  the configuration built from the lines typed at the console
prompt_for_titleblock_config(ans) ==
    IF Lower(Strip(ans.use_default)) # <<>>
       /\ Head(Lower(Strip(ans.use_default))) = "y"
    THEN DefaultConfig
    ELSE LET raw_blocks == Strip(ans.blocks) IN
         [target_block_names |->
              IF raw_blocks # <<>>
              THEN {Upper(Strip(n)) : n \in Range(Split(raw_blocks, ","))}
              ELSE DEFAULT_TARGET_BLOCK_NAMES,
          sheet_top_tags |-> ask_list(ans.top_tags, DEFAULT_SHEET_TOP_TAGS),
          sheet_top_prompts |-> ask_list(ans.top_prompts, DEFAULT_SHEET_TOP_PROMPTS),
          sheet_bottom_tags |-> ask_list(ans.bottom_tags, DEFAULT_SHEET_BOTTOM_TAGS),
          sheet_bottom_prompts |->
              ask_list(ans.bottom_prompts, DEFAULT_SHEET_BOTTOM_PROMPTS),
          title_tag_primary |-> ask_list(ans.title_tags, DEFAULT_TITLE_TAG_PRIMARY),
          title_prompt_primary |->
              ask_list(ans.title_prompts, DEFAULT_TITLE_PROMPT_PRIMARY),
          title_prompt_alias |-> ask_list(ans.alias, DEFAULT_TITLE_PROMPT_ALIAS),
          revision_index_range |-> DEFAULT_REVISION_INDEX_RANGE,
          sheetno_separator |->
              IF Strip(ans.separator) # <<>> THEN Strip(ans.separator)
              ELSE DEFAULT_SHEETNO_SEPARATOR,
          title_joiner |->
              IF Strip(ans.joiner) # <<>> THEN Strip(ans.joiner)
              ELSE DEFAULT_TITLE_JOINER]

\* The console session in which ENTER is pressed at every prompt after "n".
EnterEverywhere ==
    [use_default |-> <<"n">>, blocks |-> <<>>, top_tags |-> <<>>,
     top_prompts |-> <<>>, bottom_tags |-> <<>>, bottom_prompts |-> <<>>,
     title_tags |-> <<>>, title_prompts |-> <<>>, alias |-> <<>>,
     separator |-> <<>>, joiner |-> <<>>]

\* Console sessions that are explored: the defaults are accepted; or the block
\* name and the title-line tags are typed and every other prompt is left at
\* its default (so the tag list and the prompt list are entered separately).
ConsoleAnswers ==
    { [EnterEverywhere EXCEPT !.use_default = <<" ","Y","e","s">>],
      [EnterEverywhere EXCEPT !.blocks = <<" ","t","b","-","b"," ">>,
                              !.title_tags = <<"T","i","t","l","e","_","1">>,
                              !.separator = <<" ","/"," ">>] }

\* Configurations prompt_for_titleblock_config can return.
PromptConfigs == {prompt_for_titleblock_config(a) : a \in ConsoleAnswers}

\* The configuration of the call in main.py:614-627: the same tags and prompts
\* and no block name (TARGET_BLOCK_NAMES is empty, main.py:38-41).
NoNameFilterConfig ==
    [DefaultConfig EXCEPT !.target_block_names = {},
                          !.sheet_top_prompts = <<<<"T","O","P"," ","N","U","M","B","E","R">>>>,
                          !.sheet_bottom_prompts = <<<<"B","O","T","T","O","M"," ","N","U","M","B","E","R">>>>]

Configs == PromptConfigs \cup {NoNameFilterConfig}

(***************************************************************************)
(*        read_titleblock_from_active_layout_robust (scanner.py)           *)
(***************************************************************************)

\* Variant of the character class that also keeps the underscore.
IsTagChar_WithUnderscore(c) == Occurs(UpperChars, c) \/ Occurs(Digits, c) \/ c = "_"

\* scanner.py:5  a character the pattern [^A-Z0-9] does not remove
IsTagChar(c) == Occurs(UpperChars, c) \/ Occurs(Digits, c)

\* scanner.py:5-6   re.sub(r'[^A-Z0-9]', '', (s or '').upper())
_norm_tag(str) == SelectSeq(Upper(OrEmpty(str)), IsTagChar)

\* scanner.py:8-9
_norm_prompt(str) == SelectSeq(Upper(OrEmpty(str)), IsTagChar)

\* scanner.py:11-12  (s or '').upper().strip()
_norm_name(str) == Strip(Upper(OrEmpty(str)))

\* scanner.py:29 and 41  tb_names is None when no block name is configured
HasNameFilter(cfg) == cfg.target_block_names # {}
tb_names(cfg) == {_norm_name(n) : n \in cfg.target_block_names}

\* scanner.py:42-48
sheet_top_tag_norm(cfg) == {_norm_tag(t) : t \in Range(cfg.sheet_top_tags)}
sheet_top_prompt_norm(cfg) == {_norm_prompt(t) : t \in Range(cfg.sheet_top_prompts)}
sheet_bot_tag_norm(cfg) == {_norm_tag(t) : t \in Range(cfg.sheet_bottom_tags)}
sheet_bot_prompt_norm(cfg) == {_norm_prompt(t) : t \in Range(cfg.sheet_bottom_prompts)}
title_tag_norm_order(cfg) ==
    [j \in 1..Len(cfg.title_tag_primary) |-> _norm_tag(cfg.title_tag_primary[j])]
title_prompt_norm_order(cfg) ==
    [j \in 1..Len(cfg.title_prompt_primary) |-> _norm_prompt(cfg.title_prompt_primary[j])]
title_prompt_alias_norm(cfg) == {_norm_prompt(t) : t \in Range(cfg.title_prompt_alias)}

\* scanner.py:37  cfg.get('revision_index_range') or range(0, 10): an empty
\* range is falsy. The indices of the range, as a set.
revision_index_range(cfg) ==
    LET r == cfg.revision_index_range IN
    IF r.stop > r.start THEN r.start..(r.stop - 1)
    ELSE DEFAULT_REVISION_INDEX_RANGE.start..(DEFAULT_REVISION_INDEX_RANGE.stop - 1)

\* scanner.py:38-39
sheetno_sep(cfg) ==
    IF cfg.sheetno_separator # <<>> THEN cfg.sheetno_separator ELSE <<"-">>
title_joiner(cfg) ==
    IF cfg.title_joiner # <<>> THEN cfg.title_joiner ELSE <<" ">>

\* scanner.py:29-48  the locals the function computes once from cfg
Locals(cfg) ==
    [HasNameFilter |-> HasNameFilter(cfg),
     tb_names |-> tb_names(cfg),
     sheet_top_tag_norm |-> sheet_top_tag_norm(cfg),
     sheet_top_prompt_norm |-> sheet_top_prompt_norm(cfg),
     sheet_bot_tag_norm |-> sheet_bot_tag_norm(cfg),
     sheet_bot_prompt_norm |-> sheet_bot_prompt_norm(cfg),
     title_tag_norm_order |-> title_tag_norm_order(cfg),
     title_prompt_norm_order |-> title_prompt_norm_order(cfg),
     title_prompt_alias_norm |-> title_prompt_alias_norm(cfg),
     revision_index_range |-> revision_index_range(cfg),
     sheetno_sep |-> sheetno_sep(cfg),
     title_joiner |-> title_joiner(cfg)]

NotFound == <<"N","o","t"," ","F","o","u","n","d">>

\* ---- the host's objects ----
\* A block reference of PaperSpace: what its properties read, its attribute
\* references, and the reads on it that raise (`fails`, failures of com_get /
\* com_call as com_retry_call raises them; op "Item" is the Item(i) call that
\* returns the entity). An attribute reference likewise.

\* com_get(obj, attr) / com_call(obj, method) raises
Raises(obj, op) == \E f \in obj.fails : f.op = op

\* scanner.py:64-92  collect_attrs(ent)
AttrDict(a) ==
    LET raw_tag == IF Raises(a, "TagString") THEN <<>> ELSE OrEmpty(a.TagString)
        raw_prompt == IF Raises(a, "PromptString") THEN <<>> ELSE OrEmpty(a.PromptString)
        val == IF Raises(a, "TextString") THEN <<>> ELSE Strip(OrEmpty(a.TextString))
    IN  [raw_tag |-> raw_tag, norm_tag |-> _norm_tag(raw_tag),
         raw_prompt |-> raw_prompt, norm_prompt |-> _norm_prompt(raw_prompt),
         value |-> val]

collect_attrs(ent) ==
    IF Raises(ent, "HasAttributes") THEN <<>>
    ELSE IF ~ent.HasAttributes THEN <<>>
    ELSE IF Raises(ent, "GetAttributes") THEN <<>>
    ELSE [j \in 1..Len(ent.Attributes) |-> AttrDict(ent.Attributes[j])]

\* list.index(x): the first position of x (1-based here)
FirstIndex(seq, x) ==
    CHOOSE j \in 1..Len(seq) : seq[j] = x /\ \A m \in 1..(j - 1) : seq[m] # x

\* scanner.py:98  titles = {t: '' for t in title_tag_norm_order}
EmptyTitles(loc) == [t \in Range(loc.title_tag_norm_order) |-> <<>>]

\* Variant of the iteration that tries the sheet bottom before the sheet top.
FirstPassStep_BottomFirst(st, a, loc) ==
    LET val == a.value
        nt == a.norm_tag
        np == a.norm_prompt
    IN
    IF st.raised \/ val = <<>> THEN st
    ELSE IF (nt \in loc.sheet_bot_tag_norm \/ np \in loc.sheet_bot_prompt_norm)
            /\ st.bot = <<>>
    THEN [st EXCEPT !.bot = val, !.score = @ + 3]
    ELSE IF (nt \in loc.sheet_top_tag_norm \/ np \in loc.sheet_top_prompt_norm)
            /\ st.top = <<>>
    THEN [st EXCEPT !.top = val, !.score = @ + 3]
    ELSE IF nt \in DOMAIN st.titles /\ st.titles[nt] = <<>>
    THEN [st EXCEPT !.titles[nt] = val, !.score = @ + 1]
    ELSE IF Occurs(loc.title_prompt_norm_order, np)
    THEN LET idx == FirstIndex(loc.title_prompt_norm_order, np) IN
         IF idx > Len(loc.title_tag_norm_order)
         THEN [st EXCEPT !.raised = TRUE]
         ELSE LET tnorm == loc.title_tag_norm_order[idx] IN
              IF st.titles[tnorm] = <<>>
              THEN [st EXCEPT !.titles[tnorm] = val, !.score = @ + 1]
              ELSE st
    ELSE st

\* scanner.py:102-118  one iteration of the first loop of analyze_block;
\* st.raised records the IndexError of title_tag_norm_order[idx].
FirstPassStep(st, a, loc) ==
    LET val == a.value
        nt == a.norm_tag
        np == a.norm_prompt
    IN
    IF st.raised \/ val = <<>> THEN st
    ELSE IF (nt \in loc.sheet_top_tag_norm \/ np \in loc.sheet_top_prompt_norm)
            /\ st.top = <<>>
    THEN [st EXCEPT !.top = val, !.score = @ + 3]
    ELSE IF (nt \in loc.sheet_bot_tag_norm \/ np \in loc.sheet_bot_prompt_norm)
            /\ st.bot = <<>>
    THEN [st EXCEPT !.bot = val, !.score = @ + 3]
    ELSE IF nt \in DOMAIN st.titles /\ st.titles[nt] = <<>>
    THEN [st EXCEPT !.titles[nt] = val, !.score = @ + 1]
    ELSE IF Occurs(loc.title_prompt_norm_order, np)
    THEN LET idx == FirstIndex(loc.title_prompt_norm_order, np) IN
         IF idx > Len(loc.title_tag_norm_order)
         THEN [st EXCEPT !.raised = TRUE]
         ELSE LET tnorm == loc.title_tag_norm_order[idx] IN
              IF st.titles[tnorm] = <<>>
              THEN [st EXCEPT !.titles[tnorm] = val, !.score = @ + 1]
              ELSE st
    ELSE st

RECURSIVE FirstPass(_, _, _)
\* scanner.py:102-118  the first loop over attrs, from state st
FirstPass(st, attrs, loc) ==
    IF attrs = <<>> THEN st
    ELSE FirstPass(FirstPassStep(st, Head(attrs), loc), Tail(attrs), loc)

\* scanner.py:127  the test of the alias loop
AliasMatches(a, loc) ==
    \/ a.norm_prompt \in loc.title_prompt_alias_norm
    \/ a.norm_tag = _norm_tag(<<"E","L","E","C","T","R","I","C","A","L">>)

\* scanner.py:124-128  the index of the attribute the alias loop stops at
\* (0: none)
AliasHit(attrs, loc) ==
    LET hits == {j \in 1..Len(attrs) :
                    attrs[j].value # <<>> /\ AliasMatches(attrs[j], loc)}
    IN  IF hits = {} THEN 0 ELSE CHOOSE k \in hits : \A m \in hits : k <= m

\* Variant of the alias loop without the test that the first slot is empty.
AliasPass_NoEmptyTest(st, attrs, loc) ==
    IF st.raised \/ loc.title_tag_norm_order = <<>> THEN st
    ELSE LET t1 == loc.title_tag_norm_order[1]
             j == AliasHit(attrs, loc)
         IN  IF j = 0 THEN st
             ELSE [st EXCEPT !.titles[t1] = attrs[j].value, !.score = @ + 1]

\* scanner.py:120-128  the alias loop: the first attribute with a value that
\* matches fills the first title slot when that slot is still empty
AliasPass(st, attrs, loc) ==
    IF st.raised \/ loc.title_tag_norm_order = <<>> THEN st
    ELSE LET t1 == loc.title_tag_norm_order[1]
             hits == {j \in 1..Len(attrs) :
                         attrs[j].value # <<>> /\ AliasMatches(attrs[j], loc)}
         IN  IF st.titles[t1] # <<>> \/ hits = {} THEN st
             ELSE LET j == CHOOSE k \in hits : \A m \in hits : k <= m IN
                  [st EXCEPT !.titles[t1] = attrs[j].value, !.score = @ + 1]

RevKinds == { <<"N","O">>, <<"D","A","T","E">>, <<"D","E","S","C">>, <<"B","Y">> }

RECURSIVE DigitRun(_)
\* the longest run of decimal digits at the head of str
DigitRun(str) ==
    IF str # <<>> /\ Occurs(Digits, Head(str))
    THEN <<Head(str)>> \o DigitRun(Tail(str)) ELSE <<>>

\* scanner.py:135  re.match(r'^R(\d+)(NO|DATE|DESC|BY)$', norm_tag)
RevMatch(nt) ==
    IF nt = <<>> \/ Head(nt) # "R" THEN [ok |-> FALSE, idx |-> 0, kind |-> <<>>]
    ELSE LET run == DigitRun(Tail(nt))
             rest == SubSeq(nt, 2 + Len(run), Len(nt))
         IN  IF run # <<>> /\ rest \in RevKinds
             THEN [ok |-> TRUE, idx |-> ParseInt(run), kind |-> rest]
             ELSE [ok |-> FALSE, idx |-> 0, kind |-> <<>>]

\* scanner.py:141  { 'NO':'', 'DATE':'', 'DESC':'', 'BY':'' }
EmptyRev == [k \in RevKinds |-> <<>>]

\* Variant of the iteration that records a revision of any index.
RevPassStep_AnyIndex(st, a, loc) ==
    LET m == RevMatch(a.norm_tag) IN
    IF st.raised \/ a.value = <<>> \/ ~m.ok THEN st
    ELSE LET old == IF m.idx \in DOMAIN st.revs THEN st.revs[m.idx] ELSE EmptyRev
             new == [old EXCEPT ![m.kind] = a.value]
         IN  [st EXCEPT !.revs = [j \in (DOMAIN st.revs) \cup {m.idx} |->
                                     IF j = m.idx THEN new ELSE st.revs[j]],
                        !.score = @ + 1]

\* scanner.py:131-143  one iteration of the revision loop
RevPassStep(st, a, loc) ==
    LET m == RevMatch(a.norm_tag) IN
    IF st.raised \/ a.value = <<>> \/ ~m.ok THEN st
    ELSE IF m.idx \notin loc.revision_index_range THEN st
    ELSE LET old == IF m.idx \in DOMAIN st.revs THEN st.revs[m.idx] ELSE EmptyRev
             new == [old EXCEPT ![m.kind] = a.value]
         IN  [st EXCEPT !.revs = [j \in (DOMAIN st.revs) \cup {m.idx} |->
                                     IF j = m.idx THEN new ELSE st.revs[j]],
                        !.score = @ + 1]

RECURSIVE RevPass(_, _, _)
RevPass(st, attrs, loc) ==
    IF attrs = <<>> THEN st
    ELSE RevPass(RevPassStep(st, Head(attrs), loc), Tail(attrs), loc)

\* scanner.py:95-99  the locals of analyze_block before its loops
AnalyzeStart(loc) ==
    [score |-> 0, top |-> <<>>, bot |-> <<>>, titles |-> EmptyTitles(loc),
     revs |-> <<>>, raised |-> FALSE]

\* scanner.py:94-145  analyze_block(attrs): score, top, bot, titles, revs
\* (raised: the call ended with an IndexError instead of returning)
analyze_block(attrs, loc) ==
    RevPass(AliasPass(FirstPass(AnalyzeStart(loc), attrs, loc), attrs, loc),
            attrs, loc)

\* scanner.py:147-151  best before the first candidate
InitialBest(loc) ==
    [score |-> -1, attrs |-> <<>>, top |-> <<>>, bot |-> <<>>,
     titles |-> EmptyTitles(loc), revs |-> <<>>, attrs_count |-> 0,
     blkname |-> <<>>]

\* Variants of the comparison: `>=` on the attribute count (the later of two
\* equal candidates wins), and the score alone.
Better_GE(score, n_attrs, b) ==
    score > b.score \/ (score = b.score /\ n_attrs >= b.attrs_count)

Better_ScoreOnly(score, n_attrs, b) ==
    score >= b.score

\* scanner.py:176  the comparison of a scored candidate with best
Better(score, n_attrs, b) ==
    score > b.score \/ (score = b.score /\ n_attrs > b.attrs_count)

\* scanner.py:155-158  blkname = com_get(ent, 'Name') or '' (a failure reads as '')
BlockName(ent) == IF Raises(ent, "Name") THEN <<>> ELSE OrEmpty(ent.Name)

\* Variants of the reference test: a failed IsXRef read skips the entity, and
\* no entity is skipped.
SkippedAsXRef_FailSkips(ent) == Raises(ent, "IsXRef") \/ ent.IsXRef

SkippedAsXRef_Never(ent) == FALSE

\* scanner.py:161-166  the entity is skipped as an external reference (a
\* failure of the IsXRef read is passed over)
SkippedAsXRef(ent) == ~Raises(ent, "IsXRef") /\ ent.IsXRef

\* Variant of the name filter with the test on tb_names inverted.
SkippedByName_Inverted(ent, loc) ==
    ~loc.HasNameFilter /\ _norm_name(BlockName(ent)) \notin loc.tb_names

\* Variant without the block-name filter ahead of the attribute reads.
SkippedByName_Late(ent, loc) == FALSE

\* scanner.py:168-170  the entity is skipped by the block-name filter
SkippedByName(ent, loc) ==
    loc.HasNameFilter /\ _norm_name(BlockName(ent)) \notin loc.tb_names

\* Variant of consider_entity without the return on an empty attribute list.
consider_entity_NoEmptyReturn(b, ent, loc) ==
    IF SkippedAsXRef(ent) \/ SkippedByName(ent, loc)
    THEN [raised |-> FALSE, analyzed |-> FALSE, best |-> b]
    ELSE LET attrs == collect_attrs(ent)
             r == analyze_block(attrs, loc)
         IN  IF r.raised THEN [raised |-> TRUE, analyzed |-> TRUE, best |-> b]
             ELSE IF Better(r.score, Len(attrs), b)
             THEN [raised |-> FALSE, analyzed |-> TRUE,
                   best |-> [score |-> r.score, attrs |-> attrs, top |-> r.top,
                             bot |-> r.bot, titles |-> r.titles, revs |-> r.revs,
                             attrs_count |-> Len(attrs),
                             blkname |-> BlockName(ent)]]
             ELSE [raised |-> FALSE, analyzed |-> TRUE, best |-> b]

\* scanner.py:153-181  consider_entity(ent): the new value of best (raised:
\* analyze_block raised; analyzed: analyze_block was called)
consider_entity(b, ent, loc) ==
    IF SkippedAsXRef(ent) \/ SkippedByName(ent, loc)
    THEN [raised |-> FALSE, analyzed |-> FALSE, best |-> b]
    ELSE LET attrs == collect_attrs(ent) IN
         IF attrs = <<>> THEN [raised |-> FALSE, analyzed |-> FALSE, best |-> b]
         ELSE LET r == analyze_block(attrs, loc) IN
              IF r.raised THEN [raised |-> TRUE, analyzed |-> TRUE, best |-> b]
              ELSE IF Better(r.score, Len(attrs), b)
              THEN [raised |-> FALSE, analyzed |-> TRUE,
                    best |-> [score |-> r.score, attrs |-> attrs, top |-> r.top,
                              bot |-> r.bot, titles |-> r.titles, revs |-> r.revs,
                              attrs_count |-> Len(attrs),
                              blkname |-> BlockName(ent)]]
              ELSE [raised |-> FALSE, analyzed |-> TRUE, best |-> b]

\* scanner.py:50-56  the result before anything is found
AllNotFound ==
    [sheet_no |-> NotFound, sheet_title |-> NotFound, rev_no |-> NotFound,
     rev_date |-> NotFound, rev_desc |-> NotFound, rev_by |-> NotFound,
     other_attrs |-> <<>>]

\* Variant of `x or default` that keeps an empty x.
OrElse_NoDefault(str, default) == str

\* x or default
OrElse(str, default) == IF str # <<>> THEN str ELSE default

\* Variant of the sheet number that writes the separator whenever a half is
\* present.
ComposeSheetNo_AlwaysSep(b, loc) ==
    IF b.top # <<>> \/ b.bot # <<>> THEN b.top \o loc.sheetno_sep \o b.bot
    ELSE NotFound

\* scanner.py:194-199
ComposeSheetNo(b, loc) ==
    IF b.top # <<>> /\ b.bot # <<>> THEN b.top \o loc.sheetno_sep \o b.bot
    ELSE IF b.top # <<>> THEN b.top
    ELSE IF b.bot # <<>> THEN b.bot
    ELSE NotFound

\* Variant of the title assembly that takes the values of the filled slots in
\* the order in which the attributes were met.
ComposeTitle_EncounterOrder(b, loc) ==
    LET filledVals == {b.titles[t] : t \in DOMAIN b.titles} \ {<<>>}
        isTitle(v) == v \in filledVals
        title_vals == SelectSeq([j \in 1..Len(b.attrs) |-> b.attrs[j].value], isTitle)
    IN  IF title_vals # <<>> THEN Join(title_vals, loc.title_joiner) ELSE NotFound

\* scanner.py:201-203
ComposeTitle(b, loc) ==
    LET order == loc.title_tag_norm_order
        filled(j) == b.titles[order[j]] # <<>>
        title_vals == [j \in 1..Len(SelectSeq([k \in 1..Len(order) |-> k], filled)) |->
                          b.titles[order[SelectSeq([k \in 1..Len(order) |-> k], filled)[j]]]]
    IN  IF title_vals # <<>> THEN Join(title_vals, loc.title_joiner) ELSE NotFound

\* Variant of the revision choice that takes the highest index recorded,
\* whether or not it has a number.
ComposeRev_HighestIndex(b, kind) ==
    IF DOMAIN b.revs = {} THEN NotFound
    ELSE LET max_idx == CHOOSE x \in DOMAIN b.revs : \A y \in DOMAIN b.revs : y <= x IN
         OrElse(b.revs[max_idx][kind], NotFound)

\* scanner.py:205-212  the revision with the highest index that has a number
ComposeRev(b, kind) ==
    LET withNo == {idx \in DOMAIN b.revs : b.revs[idx][<<"N","O">>] # <<>>} IN
    IF withNo = {} THEN NotFound
    ELSE LET max_idx == CHOOSE x \in withNo : \A y \in withNo : y <= x IN
         OrElse(b.revs[max_idx][kind], NotFound)

\* Variant of the consumed tags without the sweep over the revision range.
used_norm_tags_NoRevs(loc) ==
    loc.sheet_top_tag_norm \cup loc.sheet_bot_tag_norm
    \cup Range(loc.title_tag_norm_order)

\* scanner.py:215-221
used_norm_tags(loc) ==
    loc.sheet_top_tag_norm \cup loc.sheet_bot_tag_norm
    \cup Range(loc.title_tag_norm_order)
    \cup {_norm_tag(<<"R">> \o DigitsOf(idx) \o kind) :
              idx \in {x \in loc.revision_index_range : x >= 0}, kind \in RevKinds}
    \cup {_norm_tag(<<"R","-">> \o DigitsOf(-idx) \o kind) :
              idx \in {x \in loc.revision_index_range : x < 0}, kind \in RevKinds}
used_norm_prompts(loc) ==
    loc.sheet_top_prompt_norm \cup loc.sheet_bot_prompt_norm
    \cup Range(loc.title_prompt_norm_order) \cup loc.title_prompt_alias_norm

\* scanner.py:228  key = a['raw_tag'] or a['raw_prompt'] or 'ATTR'
OtherKey(a) == OrElse(a.raw_tag, OrElse(a.raw_prompt, <<"A","T","T","R">>))

RECURSIVE OtherAttrs_LastWins(_, _, _, _)
\* Variant of the loop in which a later attribute with the same key replaces
\* the value stored.
OtherAttrs_LastWins(acc, attrs, used_tags, used_prompts) ==
    IF attrs = <<>> THEN acc
    ELSE LET a == Head(attrs)
             keep == /\ a.value # <<>>
                     /\ a.norm_tag \notin used_tags
                     /\ a.norm_prompt \notin used_prompts
             seen == \E j \in 1..Len(acc) : acc[j].key = OtherKey(a)
         IN  OtherAttrs_LastWins(
                IF keep /\ seen
                THEN [j \in 1..Len(acc) |->
                         IF acc[j].key = OtherKey(a)
                         THEN [key |-> OtherKey(a), value |-> a.value] ELSE acc[j]]
                ELSE IF keep THEN Append(acc, [key |-> OtherKey(a), value |-> a.value])
                ELSE acc,
                Tail(attrs), used_tags, used_prompts)

RECURSIVE OtherAttrs(_, _, _, _)
\* scanner.py:223-230  the dictionary other_attrs as the sequence of its
\* (key, value) pairs in insertion order, from the pairs in acc
OtherAttrs(acc, attrs, used_tags, used_prompts) ==
    IF attrs = <<>> THEN acc
    ELSE LET a == Head(attrs)
             keep == /\ a.value # <<>>
                     /\ a.norm_tag \notin used_tags
                     /\ a.norm_prompt \notin used_prompts
                     /\ \A j \in 1..Len(acc) : acc[j].key # OtherKey(a)
         IN  OtherAttrs(IF keep THEN Append(acc, [key |-> OtherKey(a), value |-> a.value])
                        ELSE acc,
                        Tail(attrs), used_tags, used_prompts)

\* scanner.py:190-232  the 7 values returned once the loop over PaperSpace is over
Compose(b, loc) ==
    IF b.score < 0 THEN AllNotFound
    ELSE [sheet_no |-> ComposeSheetNo(b, loc),
          sheet_title |-> ComposeTitle(b, loc),
          rev_no |-> ComposeRev(b, <<"N","O">>),
          rev_date |-> ComposeRev(b, <<"D","A","T","E">>),
          rev_desc |-> ComposeRev(b, <<"D","E","S","C">>),
          rev_by |-> ComposeRev(b, <<"B","Y">>),
          other_attrs |-> OtherAttrs(<<>>, b.attrs, used_norm_tags(loc),
                                     used_norm_prompts(loc))]

\* scanner.py:183-188  the loop over PaperSpace, from a value of best: an entity
\* whose Item call raises is passed over, a raise of consider_entity ends it.
RECURSIVE ScanFold(_, _, _)
ScanFold(b, ents, loc) ==
    IF ents = <<>> THEN [raised |-> FALSE, best |-> b]
    ELSE IF Raises(Head(ents), "Item") THEN ScanFold(b, Tail(ents), loc)
    ELSE LET r == consider_entity(b, Head(ents), loc) IN
         IF r.raised THEN [raised |-> TRUE, best |-> b]
         ELSE ScanFold(r.best, Tail(ents), loc)

\* scanner.py:147-232  what the call does on the entities of PaperSpace: it
\* raises, or returns the composed result.
ScanOutcome(ents, loc) ==
    LET r == ScanFold(InitialBest(loc), ents, loc) IN
    IF r.raised THEN [raised |-> TRUE, result |-> AllNotFound]
    ELSE [raised |-> FALSE, result |-> Compose(r.best, loc)]

\* ---- the function of the same name in main.py (main.py:184-473) ----

\* main.py:38-41  the module-level set of block names: empty
TARGET_BLOCK_NAMES == {}

\* main.py:199  revision_index_range is used as it is given (no default is put
\* in the place of an empty range). The indices of the range, as a set.
main_revision_index_range(cfg) ==
    cfg.revision_index_range.start..(cfg.revision_index_range.stop - 1)

\* main.py:216-226  the locals computed from the keyword parameters: the same
\* normalizations; sheetno_sep and title_joiner are used as they are given.
main_Locals(cfg) ==
    [HasNameFilter |-> cfg.target_block_names # {},
     tb_names |-> {_norm_name(n) : n \in cfg.target_block_names},
     sheet_top_tag_norm |-> {_norm_tag(t) : t \in Range(cfg.sheet_top_tags)},
     sheet_top_prompt_norm |-> {_norm_prompt(t) : t \in Range(cfg.sheet_top_prompts)},
     sheet_bot_tag_norm |-> {_norm_tag(t) : t \in Range(cfg.sheet_bottom_tags)},
     sheet_bot_prompt_norm |-> {_norm_prompt(t) : t \in Range(cfg.sheet_bottom_prompts)},
     title_tag_norm_order |->
         [j \in 1..Len(cfg.title_tag_primary) |-> _norm_tag(cfg.title_tag_primary[j])],
     title_prompt_norm_order |->
         [j \in 1..Len(cfg.title_prompt_primary) |->
             _norm_prompt(cfg.title_prompt_primary[j])],
     title_prompt_alias_norm |-> {_norm_prompt(t) : t \in Range(cfg.title_prompt_alias)},
     revision_index_range |-> main_revision_index_range(cfg),
     sheetno_sep |-> cfg.sheetno_separator,
     title_joiner |-> cfg.title_joiner]

\* main.py:322-330  the alias loop: t1 is the first title tag, or None when
\* there is none; `if t1 and not titles[t1]` also passes the loop over when t1
\* is the empty string.
main_AliasPass(st, attrs, loc) ==
    IF st.raised \/ loc.title_tag_norm_order = <<>> THEN st
    ELSE LET t1 == loc.title_tag_norm_order[1]
             hits == {j \in 1..Len(attrs) :
                         attrs[j].value # <<>> /\ AliasMatches(attrs[j], loc)}
         IN  IF t1 = <<>> \/ st.titles[t1] # <<>> \/ hits = {} THEN st
             ELSE LET j == CHOOSE k \in hits : \A m \in hits : k <= m IN
                  [st EXCEPT !.titles[t1] = attrs[j].value, !.score = @ + 1]

\* main.py:277-346  analyze_block(attrs): the first loop (292-320) and the
\* revision loop (333-344) are the statements of scanner.py:102-118 and 131-143.
main_analyze_block(attrs, loc) ==
    RevPass(main_AliasPass(FirstPass(AnalyzeStart(loc), attrs, loc), attrs, loc),
            attrs, loc)

\* main.py:374-382  the name filter: with TARGET_BLOCK_NAMES empty
\* tb_names_local is tb_names, else the parameter's names or the module's.
main_SkippedByName(ent, loc) ==
    LET tb_names_local ==
            IF TARGET_BLOCK_NAMES # {} /\ ~loc.HasNameFilter
            THEN {_norm_name(n) : n \in TARGET_BLOCK_NAMES} ELSE loc.tb_names
        filtered == loc.HasNameFilter \/ TARGET_BLOCK_NAMES # {}
    IN  filtered /\ _norm_name(BlockName(ent)) \notin tb_names_local

\* main.py:359-398  consider_entity(ent): best is rebound to a new dictionary
main_consider_entity(b, ent, loc) ==
    IF SkippedAsXRef(ent) \/ main_SkippedByName(ent, loc)
    THEN [raised |-> FALSE, best |-> b]
    ELSE LET attrs == collect_attrs(ent) IN
         IF attrs = <<>> THEN [raised |-> FALSE, best |-> b]
         ELSE LET r == main_analyze_block(attrs, loc) IN
              IF r.raised THEN [raised |-> TRUE, best |-> b]
              ELSE IF r.score > b.score
                      \/ (r.score = b.score /\ Len(attrs) > b.attrs_count)
              THEN [raised |-> FALSE,
                    best |-> [score |-> r.score, attrs |-> attrs, top |-> r.top,
                              bot |-> r.bot, titles |-> r.titles, revs |-> r.revs,
                              attrs_count |-> Len(attrs),
                              blkname |-> BlockName(ent)]]
              ELSE [raised |-> FALSE, best |-> b]

\* main.py:401-408  the loop over PaperSpace
RECURSIVE main_ScanFold(_, _, _)
main_ScanFold(b, ents, loc) ==
    IF ents = <<>> THEN [raised |-> FALSE, best |-> b]
    ELSE IF Raises(Head(ents), "Item") THEN main_ScanFold(b, Tail(ents), loc)
    ELSE LET r == main_consider_entity(b, Head(ents), loc) IN
         IF r.raised THEN [raised |-> TRUE, best |-> b]
         ELSE main_ScanFold(r.best, Tail(ents), loc)

\* main.py:348-473  what the call does on the entities of PaperSpace; the
\* composition (411-473) is made of the statements of scanner.py:190-232, the
\* key of an other_attrs entry being the raw tag, else the raw prompt, else
\* "ATTR" (464-471).
main_ScanOutcome(ents, loc) ==
    LET r == main_ScanFold(InitialBest(loc), ents, loc) IN
    IF r.raised THEN [raised |-> TRUE, result |-> AllNotFound]
    ELSE [raised |-> FALSE, result |-> Compose(r.best, loc)]

\* ---- what PaperSpace holds ----

\* Number of entities of PaperSpace that are explored.
MaxCands == 2

Attr(tag, prompt, text) ==
    [TagString |-> tag, PromptString |-> prompt, TextString |-> text, fails |-> {}]

Block(name, xref, atts) ==
    [Name |-> name, IsXRef |-> xref, HasAttributes |-> TRUE, Attributes |-> atts,
     fails |-> {}]

\* The default title block's name as drawn, and another block's name.
NameA == <<" ","g","f"," ","m","a","l","t","a"," ","t","i","t","l","e"," ","b","l","o","c","k"," ","3","0","x","4","2","-","t","b","-","a","t","t">>
NameB == <<"T","B","-","B">>

\* Attribute lists: a full title block (score 7, 3 attributes); two blocks of
\* score 3 with 2 attributes; a block of score 3 with 3 attributes, one title
\* line found by its prompt; a block of score 0.
AttrsFull ==
    << Attr(<<"T","o","p">>, <<>>, <<" ","F","A"," ">>),
       Attr(<<"N","U","M">>, <<"B","o","t","t","o","m"," ","N","u","m","b","e","r">>, <<"2","0","5">>),
       Attr(<<"T","I","T","L","E","_","1">>, <<>>, <<"F","A","B">>) >>
AttrsTop == << Attr(<<"T","O","P","_","N","U","M">>, <<>>, <<"F","A">>), Attr(<<"S","C","A","L","E">>, <<"S","c","a","l","e">>, <<"1",":","1">>) >>
AttrsBottom == << Attr(<<"4","4","2","C">>, <<>>, <<"B","9">>), Attr(<<"D","R","A","W","N">>, <<"D","r","a","w","n"," ","b","y">>, <<"G","M">>) >>
AttrsTitles ==
    << Attr(<<"T","I","T","L","E","_","1">>, <<>>, <<"F","A","B">>),
       Attr(<<"L","I","N","E","2">>, <<"T","i","t","l","e","_","2">>, <<"T","A","N","K">>),
       Attr(<<"R","1","N","O">>, <<>>, <<"C">>) >>
AttrsOther == << Attr(<<"S","C","A","L","E">>, <<>>, <<"1",":","5","0">>) >>

\* Blocks all of whose reads succeed: title blocks of either name, one of them
\* an external reference.
SoundBlocks ==
    { Block(NameA, FALSE, AttrsFull),
      Block(NameA, FALSE, AttrsTop),
      Block(NameA, FALSE, AttrsBottom),
      Block(NameA, FALSE, AttrsOther),
      Block(NameA, TRUE, AttrsFull),
      Block(NameB, FALSE, AttrsFull),
      Block(NameB, FALSE, AttrsTitles) }

\* Blocks on which one read raises, and a block without attributes.
FaultyBlocks ==
    { [Block(NameA, FALSE, AttrsFull) EXCEPT !.fails = {Exhausted("Item")}],
      [Block(NameA, FALSE, AttrsFull) EXCEPT !.fails = {Exhausted("Name")}],
      [Block(NameA, TRUE, AttrsBottom) EXCEPT !.fails = {Exhausted("IsXRef")}],
      [Block(NameA, FALSE, AttrsFull) EXCEPT !.fails = {Exhausted("HasAttributes")}],
      [Block(NameA, FALSE, AttrsFull) EXCEPT !.fails = {Permanent("GetAttributes")}],
      [Block(NameA, FALSE, AttrsFull) EXCEPT !.HasAttributes = FALSE],
      Block(NameB, FALSE,
            << [Attr(<<"T","O","P">>, <<>>, <<"F","A">>) EXCEPT !.fails = {Exhausted("TextString")}],
               Attr(NoneStr, <<"T","o","p"," ","N","u","m","b","e","r">>, <<"T","9">>) >>) }

Entities == SoundBlocks \cup FaultyBlocks

\* The reads consider_entity and collect_attrs issue on an entity, in order
\* (scanner.py:156, 163, 67, 69, 74-84).
EntityReads(e, c) ==
    <<"Name", "IsXRef">>
    \o (IF SkippedAsXRef(e) \/ SkippedByName(e, c) THEN <<>>
        ELSE <<"HasAttributes">>
             \o (IF Raises(e, "HasAttributes") \/ ~e.HasAttributes THEN <<>>
                 ELSE <<"GetAttributes">>))

AttributesRead(e, c) ==
    /\ Occurs(EntityReads(e, c), "GetAttributes")
    /\ ~Raises(e, "GetAttributes")

\* scanner.py:72-84  the three reads collect_attrs issues on each attribute
AttrOps == <<"TagString", "PromptString", "TextString">>

\* scanner.py:153-172  all the reads issued for one entity, in order
IssuedReads(e, c) ==
    EntityReads(e, c)
    \o (IF AttributesRead(e, c)
        THEN [j \in 1..(3 * Len(e.Attributes)) |-> AttrOps[((j - 1) % 3) + 1]]
        ELSE <<>>)

\* The failures of those reads (each is caught where it is raised).
IssuedFailures(e, c) ==
    {f \in e.fails : Occurs(EntityReads(e, c), f.op)}
    \cup (IF AttributesRead(e, c)
          THEN UNION {e.Attributes[j].fails : j \in 1..Len(e.Attributes)}
          ELSE {})

ScanInit ==
    /\ s_pc = "idle"
    /\ tb_config = DefaultConfig
    /\ norm = Locals(DefaultConfig)
    /\ ps_count = 0
    /\ ps_i = 0
    /\ entity = Block(<<>>, FALSE, <<>>)
    /\ best = InitialBest(Locals(DefaultConfig))
    /\ result = AllNotFound
    /\ s_exc = "none"
    /\ cands = <<>>
    /\ best_idx = 0
    /\ absorbed = {}
    /\ reads = <<>>
    /\ scored = {}

\* scanner.py:14-56  the call, with its configuration
ScanCall ==
    /\ s_pc = "idle"
    /\ \E c \in Configs : tb_config' = c /\ norm' = Locals(c)
    /\ s_pc' = "paperspace"
    /\ UNCHANGED <<ps_count, ps_i, entity, best, result, s_exc, cands, best_idx,
                   absorbed, reads, scored, notScanVars>>

\* scanner.py:58-62 and 147-151  PaperSpace and its Count are read; a failure
\* of either returns the "Not Found" values.
ScanPaperSpace ==
    /\ s_pc = "paperspace"
    /\ \/ \E n \in 0..MaxCands :
             /\ ps_count' = n
             /\ best' = InitialBest(norm)
             /\ s_pc' = "loop"
             /\ UNCHANGED <<result, absorbed>>
       \/ \E f \in Failures("PaperSpace") \cup Failures("Count") :
             /\ absorbed' = absorbed \cup {f}
             /\ result' = AllNotFound
             /\ s_pc' = "returned"
             /\ UNCHANGED <<ps_count, best>>
    /\ UNCHANGED <<tb_config, norm, ps_i, entity, s_exc, cands, best_idx, reads, scored,
                   notScanVars>>

\* scanner.py:183-187  the head of one loop iteration: Item(i) is called and an
\* entity whose Item call raises is passed over; after the last one the loop ends.
ScanItem ==
    /\ s_pc = "loop"
    /\ IF ps_i < ps_count
       THEN \E e \in Entities :
               /\ cands' = Append(cands, e)
               /\ IF Raises(e, "Item")
                  THEN /\ absorbed' = absorbed \cup {f \in e.fails : f.op = "Item"}
                       /\ ps_i' = ps_i + 1
                       /\ s_pc' = "loop"
                       /\ UNCHANGED <<entity, reads>>
                  ELSE /\ entity' = e
                       /\ reads' = <<>>
                       /\ s_pc' = "consider"
                       /\ UNCHANGED <<ps_i, absorbed>>
       ELSE /\ s_pc' = "compose"
            /\ UNCHANGED <<ps_i, entity, cands, absorbed, reads>>
    /\ UNCHANGED <<tb_config, norm, ps_count, best, result, s_exc, best_idx, scored,
                   notScanVars>>

\* scanner.py:188 and 153-181  consider_entity(entity); an exception raised by
\* analyze_block is caught nowhere and ends the call.
ScanConsider ==
    /\ s_pc = "consider"
    /\ LET r == consider_entity(best, entity, norm) IN
          /\ scored' = IF r.analyzed THEN scored \cup {ps_i + 1} ELSE scored
          /\ IF r.raised
             THEN /\ s_pc' = "raised"
                  /\ s_exc' = "IndexError"
                  /\ UNCHANGED <<best, best_idx, ps_i>>
             ELSE /\ best' = r.best
                  /\ best_idx' = IF r.best # best THEN ps_i + 1 ELSE best_idx
                  /\ ps_i' = ps_i + 1
                  /\ s_pc' = "loop"
                  /\ UNCHANGED s_exc
    /\ absorbed' = absorbed \cup IssuedFailures(entity, norm)
    /\ reads' = IssuedReads(entity, norm)
    /\ UNCHANGED <<tb_config, norm, ps_count, entity, result, cands, notScanVars>>

\* scanner.py:190-232  the outputs are composed from best and returned
ScanCompose ==
    /\ s_pc = "compose"
    /\ result' = Compose(best, norm)
    /\ s_pc' = "returned"
    /\ UNCHANGED <<tb_config, norm, ps_count, ps_i, entity, best, s_exc, cands, best_idx,
                   absorbed, reads, scored, notScanVars>>

NextScan == ScanCall \/ ScanPaperSpace \/ ScanItem \/ ScanConsider \/ ScanCompose

(***************************************************************************)
(*      analyze_block and the composition, one block, step by step         *)
(***************************************************************************)

\* Largest number of attributes of the block that is explored.
MaxAttrs == 3

\* Attribute references the block can hold: two that match the sheet top (one
\* by its tag, with the prompt of the sheet bottom; one by its prompt, with a
\* revision tag), one sheet bottom, two title lines by tag and one by prompt,
\* a title alias by its prompt and one by its tag, revision sub-fields of two
\* indices of the range, one attribute outside the schema (a revision tag of an
\* index outside the range), and one without text.
TitleBlockAttrs ==
    { Attr(<<"T","o","p">>, <<"B","o","t","t","o","m"," ","N","u","m","b","e","r">>, <<" ","F","A"," ">>),
      Attr(<<"R","1","N","O">>, <<"T","o","p"," ","N","u","m","b","e","r">>, <<"C">>),
      Attr(<<"N","U","M">>, <<"B","o","t","t","o","m"," ","N","u","m","b","e","r">>, <<"2","0","5">>),
      Attr(<<"T","I","T","L","E","_","1">>, <<>>, <<"F","A","B">>),
      Attr(<<"T","i","t","l","e","-","2">>, <<>>, <<"T","A","N","K">>),
      Attr(<<"L","I","N","E","2">>, <<"T","i","t","l","e","_","2">>, <<"S","H","E","L","L">>),
      Attr(<<"D","I","S","C">>, <<"E","l","e","c","t","r","i","c","a","l">>, <<"E","L","E","C">>),
      Attr(<<"E","l","e","c","t","r","i","c","a","l">>, <<>>, <<"P","W","R">>),
      Attr(<<"r","2","_","n","o">>, <<>>, <<"D">>),
      Attr(<<"R","2","D","A","T","E">>, <<>>, <<"2","0","2","0">>),
      Attr(<<"R","1","2","_","B","Y">>, <<>>, <<"J","D">>),
      Attr(<<"T","I","T","L","E","_","3">>, <<"T","I","T","L","E","_","3">>, <<" "," ">>) }

\* The attribute lists GetAttributes can return: up to MaxAttrs different
\* attribute references, in any order.
AttrSeqs ==
    UNION { {f \in [1..n -> TitleBlockAttrs] : \A x, y \in 1..n : f[x] = f[y] => x = y} :
               n \in 1..MaxAttrs }

AnalyzeInit ==
    /\ ab_pc = "idle"
    /\ ab_loc = Locals(DefaultConfig)
    /\ ab_attrs = <<>>
    /\ ab_k = 0
    /\ ab_st = AnalyzeStart(Locals(DefaultConfig))
    /\ ab_fired = {}
    /\ ab_out = AllNotFound

\* What one step of a loop of analyze_block did for attribute k: the rules
\* that acted, read off the locals before and after, with the points added.
Fired(k, pass, before, after) ==
    LET pts == after.score - before.score IN
    (IF after.top # before.top
     THEN {[k |-> k, rule |-> "top", slot |-> <<>>, points |-> pts]} ELSE {})
    \cup (IF after.bot # before.bot
          THEN {[k |-> k, rule |-> "bot", slot |-> <<>>, points |-> pts]} ELSE {})
    \cup {[k |-> k, rule |-> IF pass = "alias" THEN "alias" ELSE "title",
           slot |-> t, points |-> pts] :
              t \in {u \in DOMAIN before.titles : after.titles[u] # before.titles[u]}}
    \cup (IF pass = "revs" /\ pts # 0
          THEN {[k |-> k, rule |-> "rev", slot |-> <<>>, points |-> pts]} ELSE {})

\* scanner.py:175 and 94-99  analyze_block(attrs) is called on the attributes
\* collect_attrs read from a block that passed the filters.
AnalyzeCall ==
    /\ ab_pc = "idle"
    /\ \E c \in PromptConfigs, atts \in AttrSeqs :
          /\ ab_loc' = Locals(c)
          /\ ab_attrs' = collect_attrs(Block(NameB, FALSE, atts))
          /\ ab_st' = AnalyzeStart(Locals(c))
    /\ ab_k' = 1
    /\ ab_pc' = "first"
    /\ UNCHANGED <<ab_fired, ab_out, notAnalyzeVars>>

\* scanner.py:102-118  one iteration of the first loop; the IndexError of line
\* 116 ends the call.
AnalyzeFirst ==
    /\ ab_pc = "first"
    /\ LET st == FirstPassStep(ab_st, ab_attrs[ab_k], ab_loc) IN
          /\ ab_st' = st
          /\ ab_fired' = ab_fired \cup Fired(ab_k, "first", ab_st, st)
          /\ IF st.raised
             THEN ab_pc' = "raised" /\ UNCHANGED ab_k
             ELSE IF ab_k < Len(ab_attrs)
             THEN ab_pc' = "first" /\ ab_k' = ab_k + 1
             ELSE ab_pc' = "alias" /\ ab_k' = 1
    /\ UNCHANGED <<ab_loc, ab_attrs, ab_out, notAnalyzeVars>>

\* scanner.py:120-128  the alias loop, up to its break
AnalyzeAlias ==
    /\ ab_pc = "alias"
    /\ LET st == AliasPass(ab_st, ab_attrs, ab_loc) IN
          /\ ab_st' = st
          /\ ab_fired' = ab_fired \cup Fired(AliasHit(ab_attrs, ab_loc), "alias", ab_st, st)
    /\ ab_pc' = "revs"
    /\ UNCHANGED <<ab_loc, ab_attrs, ab_k, ab_out, notAnalyzeVars>>

\* scanner.py:131-143  one iteration of the revision loop
AnalyzeRevs ==
    /\ ab_pc = "revs"
    /\ LET st == RevPassStep(ab_st, ab_attrs[ab_k], ab_loc) IN
          /\ ab_st' = st
          /\ ab_fired' = ab_fired \cup Fired(ab_k, "revs", ab_st, st)
    /\ IF ab_k < Len(ab_attrs)
       THEN ab_pc' = "revs" /\ ab_k' = ab_k + 1
       ELSE ab_pc' = "scored" /\ UNCHANGED ab_k
    /\ UNCHANGED <<ab_loc, ab_attrs, ab_out, notAnalyzeVars>>

\* scanner.py:176-181  best after consider_entity retained this block
RetainedBest ==
    [score |-> ab_st.score, attrs |-> ab_attrs, top |-> ab_st.top,
     bot |-> ab_st.bot, titles |-> ab_st.titles, revs |-> ab_st.revs,
     attrs_count |-> Len(ab_attrs), blkname |-> NameB]

\* scanner.py:145, 176-181 and 190-232  analyze_block returns, the block is
\* retained (its score is above -1) and the outputs are composed from it.
AnalyzeCompose ==
    /\ ab_pc = "scored"
    /\ ab_out' = Compose(RetainedBest, ab_loc)
    /\ ab_pc' = "returned"
    /\ UNCHANGED <<ab_loc, ab_attrs, ab_k, ab_st, ab_fired, notAnalyzeVars>>

NextAnalyze ==
    AnalyzeCall \/ AnalyzeFirst \/ AnalyzeAlias \/ AnalyzeRevs \/ AnalyzeCompose

(***************************************************************************)
(*                _norm_tag and _norm_prompt on a string                   *)
(***************************************************************************)

\* Longest argument that is explored.
MaxLen == 3

\* Characters of the arguments: a lower-case and an upper-case letter, a
\* digit, and three characters the pattern removes.
NormChars == {"a", "Z", "5", "_", " ", "-"}

\* The arguments: None and every string of up to MaxLen characters.
NormInputs ==
    {NoneStr} \cup UNION {[1..n -> NormChars] : n \in 0..MaxLen}

\* scanner.py:5-9  the function named fn applied to str
Normalize(fn, str) == IF fn = "_norm_tag" THEN _norm_tag(str) ELSE _norm_prompt(str)

NormInit ==
    /\ n_pc = "idle"
    /\ n_fn = "_norm_tag"
    /\ n_in = <<>>
    /\ n_out = <<>>
    /\ n_out2 = <<>>

\* scanner.py:5-9  _norm_tag(s) or _norm_prompt(s) is called
NormCall ==
    /\ n_pc = "idle"
    /\ \E fn \in {"_norm_tag", "_norm_prompt"}, str \in NormInputs :
          /\ n_fn' = fn
          /\ n_in' = str
          /\ n_out' = Normalize(fn, str)
    /\ n_pc' = "once"
    /\ UNCHANGED <<n_out2, notNormVars>>

\* scanner.py:5-9  the same function is called on the value it returned
NormAgain ==
    /\ n_pc = "once"
    /\ n_out2' = Normalize(n_fn, n_out)
    /\ n_pc' = "twice"
    /\ UNCHANGED <<n_fn, n_in, n_out, notNormVars>>

NextNorm == NormCall \/ NormAgain

(***************************************************************************)
(*             The loop that fills other_attrs, step by step               *)
(***************************************************************************)

\* Largest number of attributes of the retained block that is explored.
MaxOther == 3

\* Attribute references of the retained block: two with the same tag, one
\* without tag whose prompt is that tag, two with neither tag nor prompt (a
\* failed read of TagString and of PromptString reads as ''), one without
\* text, and one that the sheet number consumes.
OtherBlockAttrs ==
    { Attr(<<"S","C","A","L","E">>, <<>>, <<"1",":","5","0">>),
      Attr(<<"S","C","A","L","E">>, <<"S","c","a","l","e">>, <<"1",":","1">>),
      Attr(<<>>, <<"S","C","A","L","E">>, <<"N","T","S">>),
      Attr(<<>>, <<>>, <<"A","1">>),
      Attr(NoneStr, NoneStr, <<"A","2">>),
      Attr(<<"D","W","N">>, <<>>, <<" ">>),
      Attr(<<"T","O","P">>, <<>>, <<"F","A">>) }

\* The attribute lists of the retained block: up to MaxOther different
\* attribute references, in any order.
OtherSeqs ==
    UNION { {f \in [1..n -> OtherBlockAttrs] : \A x, y \in 1..n : f[x] = f[y] => x = y} :
               n \in 1..MaxOther }

OtherInit ==
    /\ oa_pc = "idle"
    /\ oa_attrs = <<>>
    /\ oa_k = 0
    /\ other_attrs = <<>>

\* scanner.py:56 and 214-223  other_attrs = {} and the loop over best['attrs']
\* begins (the block was retained with the attributes collect_attrs read).
OtherCall ==
    /\ oa_pc = "idle"
    /\ \E atts \in OtherSeqs :
          oa_attrs' = collect_attrs(Block(NameB, FALSE, atts))
    /\ oa_k' = 1
    /\ other_attrs' = <<>>
    /\ oa_pc' = "loop"
    /\ UNCHANGED notOtherVars

\* scanner.py:223-230  one iteration of the loop, under the default
\* configuration
OtherStep ==
    /\ oa_pc = "loop"
    /\ other_attrs' = OtherAttrs(other_attrs, <<oa_attrs[oa_k]>>,
                                 used_norm_tags(Locals(DefaultConfig)),
                                 used_norm_prompts(Locals(DefaultConfig)))
    /\ IF oa_k < Len(oa_attrs)
       THEN oa_k' = oa_k + 1 /\ oa_pc' = "loop"
       ELSE oa_pc' = "done" /\ UNCHANGED oa_k
    /\ UNCHANGED <<oa_attrs, notOtherVars>>

NextOther == OtherCall \/ OtherStep

(***************************************************************************)
(*          The scan of scanner.py and the scan of main.py, side by side   *)
(***************************************************************************)

\* Configuration values both functions are called with: the defaults, the
\* values of the call in main.py, and those values with an empty separator
\* and joiner, with an empty revision range, and with a first title tag made
\* of no letter or digit.
MainScanConfigs ==
    { DefaultConfig,
      NoNameFilterConfig,
      [NoNameFilterConfig EXCEPT !.sheetno_separator = <<>>, !.title_joiner = <<>>],
      [NoNameFilterConfig EXCEPT !.revision_index_range = [start |-> 0, stop |-> 0]],
      [NoNameFilterConfig EXCEPT !.title_tag_primary = <<<<"_">>, <<"T","I","T","L","E","_","2">>>>] }

\* The entities of PaperSpace: those of the scan, and a block with a
\* discipline line whose prompt is "Electrical".
MainScanEntities ==
    Entities \cup
    { Block(NameB, FALSE,
            << Attr(<<"D","I","S","C">>, <<"E","l","e","c","t","r","i","c","a","l">>, <<"E","L","E","C">>),
               Attr(<<"L","I","N","E","2">>, <<"T","i","t","l","e","_","2">>, <<"T","A","N","K">>) >>) }

MainScanInit ==
    /\ ms_pc = "idle"
    /\ ms_cfg = DefaultConfig
    /\ ms_cands = <<>>
    /\ ms_scanner = [raised |-> FALSE, result |-> AllNotFound]
    /\ ms_main = [raised |-> FALSE, result |-> AllNotFound]

\* The same configuration values and the same PaperSpace for both functions
MainScanCall ==
    /\ ms_pc = "idle"
    /\ \E c \in MainScanConfigs, n \in 1..MaxCands :
          \E ents \in [1..n -> MainScanEntities] :
             /\ ms_cfg' = c
             /\ ms_cands' = ents
    /\ ms_pc' = "called"
    /\ UNCHANGED <<ms_scanner, ms_main, notMainScanVars>>

\* scanner.py:14-232  read_titleblock_from_active_layout_robust(doc, com_get,
\* com_call, cfg)
MainScanScanner ==
    /\ ms_pc = "called"
    /\ ms_scanner' = ScanOutcome(ms_cands, Locals(ms_cfg))
    /\ ms_pc' = "scanned"
    /\ UNCHANGED <<ms_cfg, ms_cands, ms_main, notMainScanVars>>

\* main.py:184-473  read_titleblock_from_active_layout_robust(doc, **values)
MainScanMain ==
    /\ ms_pc = "scanned"
    /\ ms_main' = main_ScanOutcome(ms_cands, main_Locals(ms_cfg))
    /\ ms_pc' = "both"
    /\ UNCHANGED <<ms_cfg, ms_cands, ms_scanner, notMainScanVars>>

NextMainScan == MainScanCall \/ MainScanScanner \/ MainScanMain

Init ==
    /\ RetryInit /\ MainInit /\ ConvInit /\ ScanInit /\ AnalyzeInit /\ NormInit
    /\ OtherInit /\ MainScanInit

SpecMainScan == Init /\ [][NextMainScan]_vars

SpecBatch == Init /\ [][NextBatch]_vars

SpecScan == Init /\ [][NextScan]_vars

SpecRetry == Init /\ [][NextRetry]_vars

SpecAnalyze == Init /\ [][NextAnalyze]_vars

SpecNorm == Init /\ [][NextNorm]_vars

SpecOther == Init /\ [][NextOther]_vars

(***************************************************************************)
(*                  Properties of the batch (SpecBatch)                    *)
(***************************************************************************)

\* The exception that left convert_individual_and_collect_rows is a read whose
\* retries were exhausted.
ExhaustedInConvert == c_exc # None /\ c_exc.kind = "exhausted"

\* C4: an operation that exhausts its retries while a drawing is converted is
\* not a failure of the session: main does not take its except branch and the
\* loop goes on to every remaining drawing.
C4_ExhaustedOpConfined ==
    ExhaustedInConvert =>
        /\ m_pc # "exit2"
        /\ (m_pc = "done" => dwg = copied)

\* plotter.py:132  the test that passes a layout over
IsPaperLayout(name) == Lower(name) # <<"m","o","d","e","l">>

\* The Layout column of the rows the loop over the layouts appended
RowLayouts ==
    LET IsLayoutRow(r) == r.layout # <<>>
        layoutRows == SelectSeq(rows, IsLayoutRow)
    IN  [j \in 1..Len(layoutRows) |-> layoutRows[j].layout]

\* C19: for a document that opened, once the method is over rows holds exactly
\* one row for every layout that is not the model layout, in the order of the
\* layouts.
C19_RowPerPaperLayout ==
    (c_pc \in {"return", "raise"} /\ doc) => RowLayouts = SelectSeq(layouts, IsPaperLayout)

\* The method is over: it is about to return or to raise, or it has.
ConvertExiting == c_pc \in {"return", "raise"} \/ (c_pc = "idle" /\ dwg >= 1)

\* The rows with a given status
RowsWithStatus(st) == {j \in 1..Len(rows) : rows[j].status = st}

\* C28: when open_document returned a document, Close is called on it exactly
\* once, at the exit and not before, whether the method returns or an
\* exception raised while the layouts are iterated leaves it; a failure of
\* Close changes nothing (the method returns, or raises the exception of the
\* loop); when the open fails Close is not called and the only thing done is
\* to append one "Open Failed" row.
C28_DocumentLifecycle ==
    /\ c_pc \in {"layouts", "item", "body", "finally"} => doc /\ closes = <<>>
    /\ ConvertExiting =>
          IF doc
          THEN /\ Len(closes) = 1
               /\ RowsWithStatus("Open Failed") = {}
          ELSE /\ closes = <<>>
               /\ c_exc = None
               /\ rows = <<OpenFailedRow>>
               /\ generated = <<>>
    /\ c_pc = "return" => c_exc = None
    /\ c_pc = "raise" =>
          /\ doc
          /\ Len(closes) = 1
          /\ c_exc \in UNION {Failures(op) : op \in {"Layouts", "Count", "Item", "Name"}}

\* Item(1) raises after the row of the first layout, the finally clause calls
\* Close, which fails, and the method raises the exception of Item.
C28_Witness ==
    /\ c_pc = "raise"
    /\ doc
    /\ Len(rows) = 1
    /\ c_exc = Exhausted("Item")
    /\ closes = <<FALSE>>

\* The rows the body of the loop appended, one per paper layout
IsLayoutRow(r) == r.status \notin {"Open Failed", "No Paper Layouts"}

\* The outcome of an operation of the current iteration, if it was issued
Issued(op) == {j \in 1..Len(calls) : calls[j].op = op}

\* C29: in every row of a layout "Plot Successful" is "Yes" exactly when Status
\* is "Plotted", exactly when "Individual PDF" is filled, and generated holds
\* exactly the PDFs of those rows, in order; Status is never empty; the
\* title-block read and the plot are issued only after an ActiveLayout
\* assignment that succeeded, and the row of the iteration says "Plotted" or
\* "Plot Failed" exactly when the plot was issued.
C29_RowConsistency ==
    /\ \A j \in 1..Len(rows) :
          /\ rows[j].status # ""
          /\ IsLayoutRow(rows[j]) =>
                /\ rows[j].plot = "Yes" <=> rows[j].status = "Plotted"
                /\ rows[j].plot = "Yes" <=> rows[j].pdf
                /\ rows[j].plot \in {"Yes", "No"}
          /\ ~IsLayoutRow(rows[j]) => rows[j].plot = "No" /\ ~rows[j].pdf
    /\ LET HasPdf(r) == IsLayoutRow(r) /\ r.pdf
           withPdf == SelectSeq(rows, HasPdf)
       IN  generated = [j \in 1..Len(withPdf) |-> withPdf[j].layout]
    /\ \A j \in Issued("read_titleblock") \cup Issued("Plot") :
          \E m \in 1..(j - 1) : calls[m] = [op |-> "ActiveLayout", ok |-> TRUE]
    /\ calls # <<>> =>
          LET row == rows[Len(rows)] IN
          /\ row.status \in {"Plotted", "Plot Failed"} <=> Issued("Plot") # {}
          /\ row.titleblock = "read" =>
                \E j \in Issued("read_titleblock") : calls[j].ok
          /\ row.status = "Plotted" => \E j \in Issued("Plot") : calls[j].ok

\* Two paper layouts: the first could not be activated (no title-block read,
\* no plot, "Activate Failed"); the second was activated at the second
\* attempt, its title-block read failed and its plot gave the PDF.
C29_Witness ==
    /\ c_pc = "item"
    /\ Len(rows) = 2
    /\ rows[1].status = "Activate Failed" /\ rows[1].plot = "No" /\ ~rows[1].pdf
    /\ rows[2].status = "Plotted" /\ rows[2].plot = "Yes" /\ rows[2].pdf
    /\ rows[2].titleblock = "default"
    /\ generated = <<rows[2].layout>>
    /\ calls = << [op |-> "ConfigName", ok |-> TRUE],
                  [op |-> "ActiveLayout", ok |-> FALSE],
                  [op |-> "ActiveLayout", ok |-> TRUE],
                  [op |-> "read_titleblock", ok |-> FALSE],
                  [op |-> "Plot", ok |-> TRUE] >>

(***************************************************************************)
(*                   Properties of the scan (SpecScan)                     *)
(***************************************************************************)

\* The call is over, and how.
ScanEnded == s_pc \in {"returned", "raised"}
RunOutcome == [raised |-> s_pc = "raised", result |-> result]

\* The read of PaperSpace or of its Count failed.
PaperSpaceFailed == \E f \in absorbed : f.op \in {"PaperSpace", "Count"}

\* What a candidate's reads give once each failed read is replaced by the value
\* its except clause substitutes: '' for a name, a tag, a prompt or a text, "not
\* a reference" for IsXRef, no attributes for HasAttributes and GetAttributes.
AttrDefaults(a) ==
    [TagString |-> IF Raises(a, "TagString") THEN <<>> ELSE a.TagString,
     PromptString |-> IF Raises(a, "PromptString") THEN <<>> ELSE a.PromptString,
     TextString |-> IF Raises(a, "TextString") THEN <<>> ELSE a.TextString,
     fails |-> {}]

EntityDefaults(e) ==
    [Name |-> IF Raises(e, "Name") THEN <<>> ELSE e.Name,
     IsXRef |-> IF Raises(e, "IsXRef") THEN FALSE ELSE e.IsXRef,
     HasAttributes |-> ~Raises(e, "HasAttributes") /\ e.HasAttributes
                       /\ ~Raises(e, "GetAttributes"),
     Attributes |-> [j \in 1..Len(e.Attributes) |-> AttrDefaults(e.Attributes[j])],
     fails |-> {}]

ItemReturned(e) == ~Raises(e, "Item")

\* The entities Item returned, each with its failed reads replaced.
CandsWithDefaults ==
    LET got == SelectSeq(cands, ItemReturned)
    IN  [j \in 1..Len(got) |-> EntityDefaults(got[j])]

\* C5 as stated: a read that ends with retries exhausted surfaces to the caller
\* as a failure, so a call that returned normally had no such read.
C5_ExhaustedReadSurfaces ==
    (\E f \in absorbed : f.kind = "exhausted") => s_pc # "returned"

\* C5, amended: a read that fails during the scan (retries exhausted or not)
\* never surfaces. A failure of PaperSpace or Count returns the "Not Found"
\* result; a failure of Item passes the entity over; any other failed read is
\* taken as its default value, and the call ends exactly as it would on those
\* values.
C5_FailedReadAbsorbed ==
    /\ (s_pc = "returned" /\ PaperSpaceFailed) => result = AllNotFound
    /\ (ScanEnded /\ ~PaperSpaceFailed) =>
           RunOutcome = ScanOutcome(CandsWithDefaults, norm)

\* A call returned a result read from a block although a read on an entity
\* had exhausted its retries.
C5_Witness ==
    /\ s_pc = "returned"
    /\ \E f \in absorbed : f.kind = "exhausted" /\ f.op \in {"Name", "IsXRef", "TextString"}
    /\ best_idx # 0
    /\ result # AllNotFound

\* C6: under a configuration prompt_for_titleblock_config returned, the scan
\* never ends with an exception of analyze_block, consider_entity or the
\* output formatting.
C6_ScoringNeverRaises ==
    tb_config \in PromptConfigs => s_pc # "raised"

\* A candidate that passes the filters and has at least one attribute.
NameAllowed(e, loc) ==
    loc.HasNameFilter =>
        Strip(Upper(IF Raises(e, "Name") THEN <<>> ELSE OrEmpty(e.Name))) \in loc.tb_names
ReadsAsXRef(e) == ~Raises(e, "IsXRef") /\ e.IsXRef
Eligible(e, loc) ==
    /\ ItemReturned(e)
    /\ ~ReadsAsXRef(e)
    /\ NameAllowed(e, loc)
    /\ collect_attrs(e) # <<>>

ScoreOf(e, loc) == analyze_block(collect_attrs(e), loc).score
AttrCount(e) == Len(collect_attrs(e))
EligibleIn(ents, loc) == {j \in 1..Len(ents) : Eligible(ents[j], loc)}

\* Candidate j comes before candidate k in the order of selection: greater
\* score, then greater attribute count, then earlier position.
Precedes(ents, loc, j, k) ==
    \/ ScoreOf(ents[j], loc) > ScoreOf(ents[k], loc)
    \/ /\ ScoreOf(ents[j], loc) = ScoreOf(ents[k], loc)
       /\ \/ AttrCount(ents[j]) > AttrCount(ents[k])
          \/ AttrCount(ents[j]) = AttrCount(ents[k]) /\ j <= k

\* The candidates so far have all been processed.
Processed == s_pc \in {"loop", "compose"}

\* C7: after every candidate processed so far, the retained candidate is the
\* eligible one with the greatest score, then the greatest attribute count,
\* then the earliest position; nothing is retained when none is eligible.
C7_SelectionIsLexMax ==
    Processed =>
        LET E == EligibleIn(cands, norm) IN
        IF E = {} THEN best_idx = 0 /\ best = InitialBest(norm)
        ELSE /\ best_idx \in E
             /\ \A k \in E : Precedes(cands, norm, best_idx, k)
             /\ best.score = ScoreOf(cands[best_idx], norm)
             /\ best.attrs_count = AttrCount(cands[best_idx])
             /\ best.attrs = collect_attrs(cands[best_idx])

\* Two eligible candidates equal in score and attribute count were processed,
\* none better, and the first of them is retained.
C7_Witness ==
    /\ s_pc = "compose"
    /\ \E j, k \in EligibleIn(cands, norm) :
          /\ j < k
          /\ ScoreOf(cands[j], norm) = ScoreOf(cands[k], norm)
          /\ AttrCount(cands[j]) = AttrCount(cands[k])
          /\ cands[j] # cands[k]
          /\ best_idx = j

\* C8: with a non-empty allow-list a candidate whose normalized name is not in
\* it is neither scored nor selected; with an empty one every processed
\* non-reference candidate with attributes is scored.
C8_AllowList ==
    /\ \A j \in 1..Len(cands) :
          (ItemReturned(cands[j]) /\ ~NameAllowed(cands[j], norm)) =>
              j \notin scored /\ best_idx # j
    /\ ~norm.HasNameFilter =>
          \A j \in 1..ps_i :
              (ItemReturned(cands[j]) /\ ~ReadsAsXRef(cands[j])
               /\ collect_attrs(cands[j]) # <<>>) => j \in scored

\* A call returned the values of an allowed block although a block with a
\* name outside the allow-list scores higher.
C8_Witness ==
    /\ s_pc = "returned"
    /\ norm.HasNameFilter
    /\ best_idx # 0
    /\ \E j \in 1..Len(cands) :
          /\ ItemReturned(cands[j]) /\ ~ReadsAsXRef(cands[j])
          /\ ~NameAllowed(cands[j], norm)
          /\ ScoreOf(cands[j], norm) > best.score

\* The candidates without those that read as external references.
NotXRef(e) == ~(ItemReturned(e) /\ ReadsAsXRef(e))
WithoutXRefs(ents) == SelectSeq(ents, NotXRef)

\* C9: a candidate whose IsXRef reads true is never scored and never selected,
\* and the returned result is the one the scan returns without it.
C9_XRefExcluded ==
    /\ \A j \in 1..Len(cands) :
          (ItemReturned(cands[j]) /\ ReadsAsXRef(cands[j])) =>
              j \notin scored /\ best_idx # j
    /\ ScanEnded /\ ~PaperSpaceFailed =>
          RunOutcome = ScanOutcome(WithoutXRefs(cands), norm)

\* A call returned the values of a block although an external reference with
\* an allowed name scores higher.
C9_Witness ==
    /\ s_pc = "returned"
    /\ best_idx # 0
    /\ \E j \in 1..Len(cands) :
          /\ ItemReturned(cands[j]) /\ ReadsAsXRef(cands[j])
          /\ NameAllowed(cands[j], norm)
          /\ collect_attrs(cands[j]) # <<>>
          /\ ScoreOf(cands[j], norm) > best.score

\* The orders in which n candidates can be enumerated.
Orders(n) == {f \in [1..n -> 1..n] : \A x, y \in 1..n : f[x] = f[y] => x = y}
Reordered(ents, f) == [j \in 1..Len(ents) |-> ents[f[j]]]

\* Two distinct eligible candidates are first in the order of selection but
\* for their position: equal greatest score and equal attribute count.
TiedForBest(ents, loc) ==
    \E j, k \in EligibleIn(ents, loc) :
        /\ j # k
        /\ ScoreOf(ents[j], loc) = ScoreOf(ents[k], loc)
        /\ AttrCount(ents[j]) = AttrCount(ents[k])
        /\ \A m \in EligibleIn(ents, loc) : Precedes(ents, loc, j, m) \/ m = k

\* C10: the call's outcome is a function of the candidates and the
\* configuration, and it is the same for every order of the candidates unless
\* two of them tie on the greatest score and on the attribute count.
C10_OrderIndependent ==
    (ScanEnded /\ ~PaperSpaceFailed) =>
        /\ RunOutcome = ScanOutcome(cands, norm)
        /\ (s_pc = "raised"
            \/ ~TiedForBest(cands, norm)) =>
               \A f \in Orders(Len(cands)) :
                   ScanOutcome(Reordered(cands, f), norm).raised = RunOutcome.raised
                   /\ (s_pc = "returned" =>
                          ScanOutcome(Reordered(cands, f), norm) = RunOutcome)

\* A call returned the values of the second of two eligible candidates that
\* differ in score or attribute count.
C10_Witness ==
    /\ s_pc = "returned"
    /\ Len(cands) >= 2
    /\ best_idx = 2
    /\ Eligible(cands[1], norm)
    /\ ~TiedForBest(cands, norm)
    /\ result # AllNotFound

\* C11: when PaperSpace is empty or every candidate is rejected (a reference, a
\* name outside the allow-list, no attributes), the call returns, without
\* raising, the six "Not Found" fields and no other field; a candidate without
\* attributes is never analysed and never replaces the initial best, whose
\* score is below zero.
C11_NoCandidate ==
    /\ EligibleIn(cands, norm) = {} =>
          /\ s_pc # "raised"
          /\ s_pc = "returned" => result = AllNotFound
          /\ Processed => best.score < 0 /\ best = InitialBest(norm)
    /\ \A j \in 1..Len(cands) :
          (ItemReturned(cands[j]) /\ collect_attrs(cands[j]) = <<>>) =>
              j \notin scored /\ best_idx # j

\* A call returned the "Not Found" result from a PaperSpace that holds a block
\* without attributes and a block that is a reference or has another name.
C11_Witness ==
    /\ s_pc = "returned"
    /\ ~PaperSpaceFailed
    /\ result = AllNotFound
    /\ EligibleIn(cands, norm) = {}
    /\ \E j, k \in 1..Len(cands) :
          /\ ItemReturned(cands[j]) /\ ~ReadsAsXRef(cands[j])
          /\ NameAllowed(cands[j], norm) /\ collect_attrs(cands[j]) = <<>>
          /\ ItemReturned(cands[k])
          /\ (ReadsAsXRef(cands[k]) \/ ~NameAllowed(cands[k], norm))

(***************************************************************************)
(*           Properties of analyze_block and of the composition            *)
(***************************************************************************)

\* The attribute has a value and matches the sheet-top rule (the sheet-bottom
\* rule) by its tag or by its prompt.
MatchesTop(a, loc) ==
    a.value # <<>>
    /\ (a.norm_tag \in loc.sheet_top_tag_norm \/ a.norm_prompt \in loc.sheet_top_prompt_norm)
MatchesBottom(a, loc) ==
    a.value # <<>>
    /\ (a.norm_tag \in loc.sheet_bot_tag_norm \/ a.norm_prompt \in loc.sheet_bot_prompt_norm)

\* One step of the first loop or of the alias loop leaves every field that is
\* filled as it is, and adds 3 points for a sheet half it fills, 1 point for
\* a title slot it fills, and nothing else.
FilledFieldsKept ==
    /\ ab_st.top # <<>> => ab_st'.top = ab_st.top
    /\ ab_st.bot # <<>> => ab_st'.bot = ab_st.bot
    /\ \A t \in DOMAIN ab_st.titles :
          ab_st.titles[t] # <<>> => ab_st'.titles[t] = ab_st.titles[t]
    /\ ab_pc \in {"first", "alias"} =>
          ab_st'.score - ab_st.score =
              (IF ab_st'.top # ab_st.top THEN 3 ELSE 0)
              + (IF ab_st'.bot # ab_st.bot THEN 3 ELSE 0)
              + Cardinality({t \in DOMAIN ab_st.titles :
                                ab_st'.titles[t] # ab_st.titles[t]})

\* C12: once sheet-top, sheet-bottom or a title slot is filled, no later
\* attribute of the candidate (by the same tag, by another tag or prompt, or in
\* the alias loop) changes its value or adds score for it.
C12_FirstWriteWins == [][FilledFieldsKept]_vars

\* analyze_block returned on a block with two attributes that match the sheet
\* top with different values: the value of the first is the one kept.
C12_Witness ==
    /\ ab_pc = "returned"
    /\ Len(ab_attrs) = 2
    /\ MatchesTop(ab_attrs[1], ab_loc) /\ MatchesTop(ab_attrs[2], ab_loc)
    /\ ab_attrs[1].value # ab_attrs[2].value
    /\ ab_st.top = ab_attrs[1].value

RECURSIVE SlotValues(_, _)
\* The values of the filled slots among the slots `order`, one per filled
\* slot, in the order of the slots.
SlotValues(titles, order) ==
    IF order = <<>> THEN <<>>
    ELSE (IF titles[Head(order)] # <<>> THEN <<titles[Head(order)]>> ELSE <<>>)
         \o SlotValues(titles, Tail(order))

\* The title slots an attribute can fill: by its tag, by the position of its
\* prompt, and the first slot through the alias test.
SlotsOf(a, loc) ==
    LET order == loc.title_tag_norm_order IN
    (IF a.norm_tag \in Range(order) THEN {a.norm_tag} ELSE {})
    \cup {order[j] : j \in {m \in 1..Len(order) :
                              /\ m <= Len(loc.title_prompt_norm_order)
                              /\ loc.title_prompt_norm_order[m] = a.norm_prompt}}
    \cup (IF AliasMatches(a, loc) /\ order # <<>> THEN {order[1]} ELSE {})

\* No two attributes with a value can fill the same title slot, and none that
\* matches a sheet half can fill one: what each slot holds does not depend on
\* which attribute came first.
NoSlotContended(attrs, loc) ==
    /\ \A j, k \in 1..Len(attrs) :
          (j # k /\ attrs[j].value # <<>> /\ attrs[k].value # <<>>)
             => SlotsOf(attrs[j], loc) \cap SlotsOf(attrs[k], loc) = {}
    /\ \A j \in 1..Len(attrs) :
          (MatchesTop(attrs[j], loc) \/ MatchesBottom(attrs[j], loc))
             => SlotsOf(attrs[j], loc) = {}

\* sheet_title of the result composed from analyze_block on attrs
TitleOf(attrs, loc) ==
    LET st == analyze_block(attrs, loc) IN
    IF st.raised THEN <<"raised">>
    ELSE ComposeTitle([titles |-> st.titles, attrs |-> attrs], loc)

\* C13: the returned sheet title is the join, with title_joiner, of the
\* non-empty title-slot values of the retained block in configured slot order,
\* one value per filled slot ("Not Found" when no slot is filled); and when no
\* slot is contended the title is the same for every order of the attributes.
C13_TitleInSlotOrder ==
    ab_pc = "returned" =>
       LET vals == SlotValues(ab_st.titles, ab_loc.title_tag_norm_order) IN
       /\ Len(vals) = Cardinality({j \in 1..Len(ab_loc.title_tag_norm_order) :
                                      ab_st.titles[ab_loc.title_tag_norm_order[j]] # <<>>})
       /\ ab_out.sheet_title =
             IF vals = <<>> THEN NotFound ELSE Join(vals, ab_loc.title_joiner)
       /\ NoSlotContended(ab_attrs, ab_loc) =>
             \A f \in Orders(Len(ab_attrs)) :
                TitleOf(Reordered(ab_attrs, f), ab_loc) = ab_out.sheet_title

\* The second title line is met before the first and the title is "FAB TANK".
C13_Witness ==
    /\ ab_pc = "returned"
    /\ Len(ab_attrs) = 2
    /\ ab_attrs[1].value = <<"T","A","N","K">>
    /\ ab_attrs[2].value = <<"F","A","B">>
    /\ ab_out.sheet_title = <<"F","A","B"," ","T","A","N","K">>

\* The sub-field `kind` of revision idx as the attributes give it: the value of
\* the last attribute with a value whose normalized tag is R<idx><kind>
\* (empty when there is none).
RevField(attrs, idx, kind) ==
    LET hits == {j \in 1..Len(attrs) :
                    /\ attrs[j].value # <<>>
                    /\ RevMatch(attrs[j].norm_tag).ok
                    /\ RevMatch(attrs[j].norm_tag).idx = idx
                    /\ RevMatch(attrs[j].norm_tag).kind = kind}
    IN  IF hits = {} THEN <<>>
        ELSE attrs[CHOOSE j \in hits : \A m \in hits : m <= j].value

\* The indices of the configured range whose number sub-field is not empty.
Numbered(attrs, loc) ==
    {idx \in loc.revision_index_range : RevField(attrs, idx, <<"N","O">>) # <<>>}

\* The four revision fields of the result, by sub-field.
RevOut(out) ==
    (<<"N","O">> :> out.rev_no) @@ (<<"D","A","T","E">> :> out.rev_date)
    @@ (<<"D","E","S","C">> :> out.rev_desc) @@ (<<"B","Y">> :> out.rev_by)

\* C14: the four returned revision fields come from the revision with the
\* highest index among those whose number is not empty, each sub-field being
\* that revision's value or "Not Found" when it is empty; a revision without a
\* number is ignored whatever its index, and without any numbered revision all
\* four fields are "Not Found".
C14_RevisionHighestNumbered ==
    ab_pc = "returned" =>
       LET Q == Numbered(ab_attrs, ab_loc) IN
       IF Q = {} THEN \A kind \in RevKinds : RevOut(ab_out)[kind] = NotFound
       ELSE LET top_idx == CHOOSE x \in Q : \A y \in Q : y <= x IN
            \A kind \in RevKinds :
               RevOut(ab_out)[kind] =
                  IF RevField(ab_attrs, top_idx, kind) # <<>>
                  THEN RevField(ab_attrs, top_idx, kind) ELSE NotFound

\* Revisions 1 and 2 have a number and revision 2 has a date: the result holds
\* the number and the date of revision 2, and "Not Found" for the other two.
C14_Witness ==
    /\ ab_pc = "returned"
    /\ Numbered(ab_attrs, ab_loc) = {1, 2}
    /\ ab_out.rev_no = <<"D">>
    /\ ab_out.rev_date = <<"2","0","2","0">>
    /\ ab_out.rev_desc = NotFound
    /\ ab_out.rev_by = NotFound

\* C15: the sheet number of the result is top + separator + bottom when the
\* retained block has both halves, the one half alone when it has exactly one,
\* and "Not Found" when it has neither.
C15_SheetNumber ==
    ab_pc = "returned" =>
       /\ (ab_st.top # <<>> /\ ab_st.bot # <<>>)
             => ab_out.sheet_no = ab_st.top \o ab_loc.sheetno_sep \o ab_st.bot
       /\ (ab_st.top # <<>> /\ ab_st.bot = <<>>) => ab_out.sheet_no = ab_st.top
       /\ (ab_st.top = <<>> /\ ab_st.bot # <<>>) => ab_out.sheet_no = ab_st.bot
       /\ (ab_st.top = <<>> /\ ab_st.bot = <<>>) => ab_out.sheet_no = NotFound

\* Top "FA", bottom "205" and the separator "-" give "FA-205".
C15_Witness ==
    /\ ab_pc = "returned"
    /\ ab_st.top = <<"F","A">>
    /\ ab_st.bot = <<"2","0","5">>
    /\ ab_loc.sheetno_sep = <<"-">>
    /\ ab_out.sheet_no = <<"F","A","-","2","0","5">>

\* The IndexError of scanner.py:116: an attribute with a value reaches the
\* prompt rule with its prompt at a position the tag list does not have.
PromptBeyondTags(attrs, loc) ==
    \E j \in 1..Len(attrs) :
       /\ attrs[j].value # <<>>
       /\ Occurs(loc.title_prompt_norm_order, attrs[j].norm_prompt)
       /\ FirstIndex(loc.title_prompt_norm_order, attrs[j].norm_prompt)
             > Len(loc.title_tag_norm_order)

\* C16: in every result each of the six schema fields is a non-empty value or
\* "Not Found", never the empty string, and whether a field is "Not Found"
\* depends on its own data only: the sheet number on the two halves, the title
\* on the title slots, a revision field on that sub-field of the numbered
\* revision. The call raises only on an attribute that is present (a prompt
\* beyond the tag list), never because a field is missing.
C16_PerFieldSentinel ==
    /\ ab_pc = "returned" =>
          LET Q == Numbered(ab_attrs, ab_loc)
              top_idx == CHOOSE x \in Q : \A y \in Q : y <= x
          IN  /\ <<>> \notin {ab_out.sheet_no, ab_out.sheet_title} \cup {RevOut(ab_out)[kind] : kind \in RevKinds}
              /\ (ab_out.sheet_no = NotFound) <=> (ab_st.top = <<>> /\ ab_st.bot = <<>>)
              /\ (ab_out.sheet_title = NotFound)
                    <=> (\A t \in DOMAIN ab_st.titles : ab_st.titles[t] = <<>>)
              /\ \A kind \in RevKinds :
                    (RevOut(ab_out)[kind] = NotFound)
                       <=> (Q = {} \/ RevField(ab_attrs, top_idx, kind) = <<>>)
    /\ ab_pc = "raised" => PromptBeyondTags(ab_attrs, ab_loc)

\* A result with the sheet number and the revision number resolved and the
\* title and the revision date missing.
C16_Witness ==
    /\ ab_pc = "returned"
    /\ ab_out.sheet_no = <<"F","A">>
    /\ ab_out.sheet_title = NotFound
    /\ ab_out.rev_no = <<"C">>
    /\ ab_out.rev_date = NotFound

\* The attribute bears a consumed identifier: a sheet-top or sheet-bottom tag
\* or prompt, a title-slot tag or prompt, an alias prompt, or the tag of a
\* revision sub-field of an index of the configured range.
IsConsumed(a, loc) ==
    \/ a.norm_tag \in loc.sheet_top_tag_norm \cup loc.sheet_bot_tag_norm
    \/ a.norm_prompt \in loc.sheet_top_prompt_norm \cup loc.sheet_bot_prompt_norm
    \/ Occurs(loc.title_tag_norm_order, a.norm_tag)
    \/ Occurs(loc.title_prompt_norm_order, a.norm_prompt)
    \/ a.norm_prompt \in loc.title_prompt_alias_norm
    \/ \E idx \in loc.revision_index_range, kind \in RevKinds :
          a.norm_tag = <<"R">> \o DigitsOf(idx) \o kind

\* The entry of other_attrs an attribute would give
EntryOf(a) == [key |-> OtherKey(a), value |-> a.value]

\* C17: every entry of other_attrs is taken from an attribute that has a value
\* and bears no consumed identifier; an attribute without a value or with a
\* consumed identifier gives no entry (unless another attribute gives the very
\* same one).
C17_OtherFieldsExclusion ==
    ab_pc = "returned" =>
       /\ \A e \in Range(ab_out.other_attrs) :
             \E j \in 1..Len(ab_attrs) :
                /\ EntryOf(ab_attrs[j]) = e
                /\ ab_attrs[j].value # <<>>
                /\ ~IsConsumed(ab_attrs[j], ab_loc)
       /\ \A j \in 1..Len(ab_attrs) :
             (/\ ab_attrs[j].value = <<>> \/ IsConsumed(ab_attrs[j], ab_loc)
              /\ \A k \in 1..Len(ab_attrs) :
                    EntryOf(ab_attrs[k]) = EntryOf(ab_attrs[j]) => k = j)
                => EntryOf(ab_attrs[j]) \notin Range(ab_out.other_attrs)

\* The block holds R12_BY (an index outside the range), the date of a revision
\* without number and an attribute without text: other_attrs holds R12_BY
\* alone.
C17_Witness ==
    /\ ab_pc = "returned"
    /\ Len(ab_attrs) = 3
    /\ \E j \in 1..3 : ab_attrs[j].norm_tag = <<"R","2","D","A","T","E">>
    /\ \E j \in 1..3 : ab_attrs[j].value = <<>>
    /\ ab_out.rev_date = NotFound
    /\ ab_out.other_attrs = << [key |-> <<"R","1","2","_","B","Y">>, value |-> <<"J","D">>] >>

\* C20: an attribute that sets the sheet top or the sheet bottom adds exactly
\* 3 to the score and no other rule acts on it: over the whole call the only
\* rule recorded for that attribute is the one that set the sheet half.
C20_RuleExclusive ==
    \A r \in ab_fired :
       r.rule \in {"top", "bot"} =>
          /\ r.points = 3
          /\ \A q \in ab_fired : q.k = r.k => q = r

\* The position of the attribute's prompt among the title-slot prompts (0 when
\* it is not one of them).
PromptSlot(a, loc) ==
    LET at == {j \in 1..Len(loc.title_prompt_norm_order) :
                  loc.title_prompt_norm_order[j] = a.norm_prompt}
    IN  IF at = {} THEN 0 ELSE CHOOSE j \in at : \A m \in at : j <= m

\* 3 for the sheet top, 3 for the sheet bottom, 1 for each title slot filled
FieldPoints(st) ==
    (IF st.top # <<>> THEN 3 ELSE 0) + (IF st.bot # <<>> THEN 3 ELSE 0)
    + Cardinality({t \in DOMAIN st.titles : st.titles[t] # <<>>})

\* What an iteration of the first loop is to do with attribute a: nothing when
\* it has no value, otherwise the first rule that applies among sheet top,
\* sheet bottom, title slot by tag, title slot by the position of the prompt.
FirstRule(st, a, loc) ==
    LET tags == loc.title_tag_norm_order
        pos == PromptSlot(a, loc)
    IN  IF a.value = <<>> THEN st
        ELSE IF MatchesTop(a, loc) /\ st.top = <<>>
        THEN [st EXCEPT !.top = a.value, !.score = @ + 3]
        ELSE IF MatchesBottom(a, loc) /\ st.bot = <<>>
        THEN [st EXCEPT !.bot = a.value, !.score = @ + 3]
        ELSE IF Occurs(tags, a.norm_tag) /\ st.titles[a.norm_tag] = <<>>
        THEN [st EXCEPT !.titles[a.norm_tag] = a.value, !.score = @ + 1]
        ELSE IF pos \in 1..Len(tags) /\ st.titles[tags[pos]] = <<>>
        THEN [st EXCEPT !.titles[tags[pos]] = a.value, !.score = @ + 1]
        ELSE st

\* One iteration of the first loop: the attributes are taken in input order,
\* the locals become what the first applicable rule makes them, and the score
\* is that of the fields filled so far. (The iteration raises only on a prompt
\* at a position the tag list does not have.)
FirstLoopStep ==
    ab_pc = "first" =>
       /\ IF ab_pc' = "first" THEN ab_k' = ab_k + 1 ELSE ab_k = Len(ab_attrs) \/ ab_pc' = "raised"
       /\ IF ab_st'.raised
          THEN PromptSlot(ab_attrs[ab_k], ab_loc) > Len(ab_loc.title_tag_norm_order)
          ELSE /\ ab_st' = FirstRule(ab_st, ab_attrs[ab_k], ab_loc)
               /\ ab_st'.score = FieldPoints(ab_st')

\* C21: the first loop of analyze_block takes the attributes in input order;
\* an attribute without value changes nothing; for any other attribute exactly
\* the first applicable rule acts, in the order sheet top, sheet bottom, title
\* slot by tag, title slot by prompt position; and the score after the loop is
\* 3 for the top, 3 for the bottom and 1 for each filled title slot.
C21_FirstPass == [][FirstLoopStep]_vars

\* The first loop is over on (TOP with the prompt of the sheet bottom, NUM): the
\* first attribute matched both sheet rules and went to the top, the second
\* went to the bottom.
C21_Witness ==
    /\ ab_pc = "alias"
    /\ Len(ab_attrs) = 2
    /\ MatchesTop(ab_attrs[1], ab_loc) /\ MatchesBottom(ab_attrs[1], ab_loc)
    /\ ab_st.top = <<"F","A">>
    /\ ab_st.bot = <<"2","0","5">>
    /\ ab_st.score = 6

\* The attribute has a value and its normalized prompt is one of the
\* configured title alias prompts.
HasAliasPrompt(a, loc) ==
    a.value # <<>> /\ a.norm_prompt \in loc.title_prompt_alias_norm

\* C22: the alias loop fills the first title slot only when the first loop left
\* it empty, with the value of the first attribute in input order whose
\* normalized prompt is a configured alias prompt, for exactly 1 point; an
\* attribute whose prompt is not an alias prompt never fills it, and without
\* such an attribute the slot stays empty and the score unchanged.
C22_AliasByPrompt ==
    /\ \A r \in ab_fired :
          r.rule = "alias" =>
             /\ r.points = 1
             /\ r.slot = ab_loc.title_tag_norm_order[1]
             /\ HasAliasPrompt(ab_attrs[r.k], ab_loc)
             /\ \A j \in 1..(r.k - 1) : ~HasAliasPrompt(ab_attrs[j], ab_loc)
             /\ \A q \in ab_fired : q.rule = "title" => q.slot # r.slot
    /\ (ab_pc \in {"revs", "scored", "returned"}
        /\ \A r \in ab_fired : r.rule # "alias")
          => \/ \A j \in 1..Len(ab_attrs) : ~HasAliasPrompt(ab_attrs[j], ab_loc)
             \/ \E q \in ab_fired :
                   q.rule = "title" /\ q.slot = ab_loc.title_tag_norm_order[1]

\* The ways to read a normalized tag as R + decimal digits + sub-field: the
\* pairs <<index, sub-field>> (none, or exactly one).
RevTagReadings(nt) ==
    {<<ParseInt(SubSeq(nt, 2, Len(nt) - Len(kind))), kind>> :
        kind \in {kd \in RevKinds :
                    /\ Len(nt) >= Len(kd) + 2
                    /\ nt[1] = "R"
                    /\ SubSeq(nt, Len(nt) - Len(kd) + 1, Len(nt)) = kd
                    /\ \A j \in 2..(Len(nt) - Len(kd)) : Occurs(Digits, nt[j])}}

\* One iteration of the revision loop: an attribute with a value whose tag
\* reads as a revision sub-field of an index of the range is recorded in
\* revs[index] (made of four empty sub-fields when absent) for 1 point; any
\* other attribute changes nothing; the sheet halves and the title slots stay.
RevLoopStep ==
    ab_pc = "revs" =>
       LET a == ab_attrs[ab_k]
           hit == {rd \in RevTagReadings(a.norm_tag) :
                      a.value # <<>> /\ rd[1] \in ab_loc.revision_index_range}
       IN  /\ ab_st'.top = ab_st.top /\ ab_st'.bot = ab_st.bot
           /\ ab_st'.titles = ab_st.titles
           /\ IF hit = {}
              THEN ab_st'.revs = ab_st.revs /\ ab_st'.score = ab_st.score
              ELSE \E rd \in hit :
                      LET old == IF rd[1] \in DOMAIN ab_st.revs
                                 THEN ab_st.revs[rd[1]] ELSE EmptyRev
                      IN  /\ ab_st'.score = ab_st.score + 1
                          /\ DOMAIN ab_st'.revs = DOMAIN ab_st.revs \cup {rd[1]}
                          /\ ab_st'.revs[rd[1]] = [old EXCEPT ![rd[2]] = a.value]
                          /\ \A j \in DOMAIN ab_st.revs \ {rd[1]} :
                                ab_st'.revs[j] = ab_st.revs[j]

\* C23: in the revision loop an attribute with a value whose normalized tag is
\* R + decimal digits + NO, DATE, DESC or BY, with the index inside the
\* configured range, is recorded in revisions[index] and adds exactly 1 to the
\* score; an index outside the range, or a tag not of that pattern, changes
\* neither the revisions nor the score.
C23_RevisionPass == [][RevLoopStep]_vars

\* The revision loop is over on (r2_no, R12_BY): revision 2 has its number,
\* nothing is recorded for index 12, and the score is 1.
C23_Witness ==
    /\ ab_pc = "scored"
    /\ Len(ab_attrs) = 2
    /\ ab_attrs[1].norm_tag = <<"R","2","N","O">>
    /\ ab_attrs[2].norm_tag = <<"R","1","2","B","Y">>
    /\ DOMAIN ab_st.revs = {2}
    /\ ab_st.revs[2] = [EmptyRev EXCEPT ![<<"N","O">>] = <<"D">>]
    /\ ab_st.score = 1

\* C26: no attribute of the block both supplies a schema field (the sheet top,
\* the sheet bottom, a title slot, slot 0 by the alias loop included, or a
\* revision sub-field) and gives an entry of other_attrs.
C26_NoDoubleUse ==
    ab_pc = "returned" =>
       \A r \in ab_fired :
          EntryOf(ab_attrs[r.k]) \notin Range(ab_out.other_attrs)

(***************************************************************************)
(*                 Properties of the normalization (SpecNorm)              *)
(***************************************************************************)

\* C18: _norm_tag and _norm_prompt are idempotent (applied to the value they
\* returned they return it again), the value they return holds only the
\* characters A-Z and 0-9, and the empty string and None give the empty string.
C18_NormIdempotent ==
    /\ n_pc = "twice" => n_out2 = n_out
    /\ n_pc \in {"once", "twice"} =>
          /\ \A j \in 1..Len(n_out) : n_out[j] \in Range(UpperChars) \cup Range(Digits)
          /\ n_in \in {<<>>, NoneStr} => n_out = <<>>

\* "a_5" gave "A5", and "A5" gave "A5" again.
C18_Witness ==
    /\ n_pc = "twice"
    /\ n_in = <<"a","_","5">>
    /\ n_out = <<"A","5">>
    /\ n_out2 = <<"A","5">>

(***************************************************************************)
(*                Properties of other_attrs (SpecOther)                    *)
(***************************************************************************)

\* The attributes the loop has been through
OtherSeen == IF oa_pc = "done" THEN Len(oa_attrs) ELSE IF oa_pc = "loop" THEN oa_k - 1 ELSE 0

\* The attribute is kept: it has a value and bears no consumed identifier.
OtherKept(j) ==
    oa_attrs[j].value # <<>> /\ ~IsConsumed(oa_attrs[j], Locals(DefaultConfig))

\* The key of an attribute as the specification gives it: the raw tag, or the
\* raw prompt when the raw tag is empty.
TagOrPrompt(a) == IF a.raw_tag # <<>> THEN a.raw_tag ELSE a.raw_prompt

\* The key with the fallback of scanner.py:228: "ATTR" when both are empty.
TagOrPromptOrATTR(a) ==
    IF TagOrPrompt(a) # <<>> THEN TagOrPrompt(a) ELSE <<"A","T","T","R">>

\* The pairs the dictionary is to hold after the attributes seen, in insertion
\* order, with keys given by Key: one pair for each kept attribute that no
\* earlier kept attribute shares its key with.
FirstWins(Key(_)) ==
    LET IsFirst(j) == /\ OtherKept(j)
                      /\ \A m \in 1..(j - 1) :
                            OtherKept(m) => Key(oa_attrs[m]) # Key(oa_attrs[j])
        firsts == SelectSeq([j \in 1..OtherSeen |-> j], IsFirst)
    IN  [n \in 1..Len(firsts) |->
            [key |-> Key(oa_attrs[firsts[n]]), value |-> oa_attrs[firsts[n]].value]]

\* C24 as stated: each kept attribute is stored under its raw tag, or under its
\* raw prompt when the raw tag is empty; the first occurrence of a key wins and
\* the insertion order follows the attribute order.
C24_KeyIsTagOrPrompt == other_attrs = FirstWins(TagOrPrompt)

\* C24 amended: the key is the raw tag, or the raw prompt when the raw tag is
\* empty, or "ATTR" when both are empty; the first occurrence of a key wins,
\* later attributes with the same key are dropped without changing the stored
\* value, and the insertion order follows the attribute order.
C24_KeysFirstWins == other_attrs = FirstWins(TagOrPromptOrATTR)

\* Two attributes with the tag SCALE and one with neither tag nor prompt: the
\* dictionary holds the first SCALE and the value without name under "ATTR".
C24_Witness ==
    /\ oa_pc = "done"
    /\ Len(oa_attrs) = 3
    /\ oa_attrs[1].raw_tag = oa_attrs[2].raw_tag
    /\ oa_attrs[3].raw_tag = <<>> /\ oa_attrs[3].raw_prompt = <<>>
    /\ other_attrs = << [key |-> <<"S","C","A","L","E">>, value |-> <<"1",":","5","0">>],
                        [key |-> <<"A","T","T","R">>, value |-> <<"A","1">>] >>

(***************************************************************************)
(*             Properties of the order of reads (SpecScan)                 *)
(***************************************************************************)

\* The reads that reach the attributes of an entity
AttributeOps == {"HasAttributes", "GetAttributes", "TagString", "PromptString", "TextString"}

\* C25: for a candidate rejected as a reference or by the allow-list no
\* attribute read is issued (neither logged among its reads nor, when it
\* fails, among the failures caught); an attribute read for a candidate comes
\* only after its Name read and its IsXRef read, and only if both filters passed.
C25_FastPath ==
    /\ reads # <<>> =>
          /\ (ReadsAsXRef(entity) \/ ~NameAllowed(entity, norm)) =>
                \A j \in 1..Len(reads) : reads[j] \notin AttributeOps
          /\ \A j \in 1..Len(reads) :
                reads[j] \in AttributeOps =>
                   /\ \E m \in 1..(j - 1) : reads[m] = "Name"
                   /\ \E m \in 1..(j - 1) : reads[m] = "IsXRef"
                   /\ ~ReadsAsXRef(entity)
                   /\ NameAllowed(entity, norm)
    /\ \A f \in absorbed :
          f.op \in AttributeOps =>
             \E j \in 1..Len(cands) :
                /\ ~ReadsAsXRef(cands[j]) /\ NameAllowed(cands[j], norm)
                /\ \/ f \in cands[j].fails
                   \/ \E k \in 1..Len(cands[j].Attributes) : f \in cands[j].Attributes[k].fails

\* Two candidates have been considered under the allow-list: a reference,
\* then a block of another name one of whose attribute reads would fail; only
\* Name and IsXRef were read on the last and no failure was caught.
C25_Witness ==
    /\ s_pc = "loop"
    /\ norm.HasNameFilter
    /\ Len(cands) = 2
    /\ ReadsAsXRef(cands[1]) /\ ~Raises(cands[1], "Item")
    /\ entity = cands[2]
    /\ ~NameAllowed(entity, norm)
    /\ \E k \in 1..Len(entity.Attributes) : entity.Attributes[k].fails # {}
    /\ reads = <<"Name", "IsXRef">>
    /\ absorbed = {}
    /\ ps_i = 2

(***************************************************************************)
(*        Properties of the two implementations (SpecMainScan)             *)
(***************************************************************************)

\* C30: called with the same configuration values on the same entities, the
\* function of scanner.py and the function of main.py end the same way and
\* return the same 7 values.
C30_SameTuple == ms_pc = "both" => ms_scanner = ms_main

====
